---------------------------- MODULE Spec2Model ----------------------------
(***************************************************************************)
(* Model of the scheduled refresh pipeline and snapshot cache of           *)
(* backend-hyperliquid-candles: Cache (cache.go), HyperliquidClient's      *)
(* retry wrapper (hyperliquid.go), SymbolFetcherActor (symbols.go) and     *)
(* CandleFetcherActor (candle fetcher).                                    *)
(*                                                                         *)
(* Spec       the two actors working on the cache; cache operations are    *)
(*            atomic (they run under Cache.mu), goroutines interleave.     *)
(* SpecPart   the batch loop of fetchAllCandles alone, over every symbol   *)
(*            list and batch size within the bounds.                       *)
(* SpecRetry  one FetchCandlesWithRetry call and the collect loop's        *)
(*            handling of what it returns, with the calls and sleeps it    *)
(*            makes logged.                                                *)
(* SpecSym    the symbol fetcher alone, refresh after refresh, with the    *)
(*            last two refreshes remembered.                               *)
(* SpecTick   the two actors with their mailboxes and repeaters: the        *)
(*            routine runs for actor.Started and for each periodic message.*)
(* SpecLive   the candle fetcher alone, cycle after cycle over a symbol     *)
(*            list the symbol fetcher has stored, under fair scheduling.   *)
(* SpecCache  the Cache under concurrent callers, one step per statement   *)
(*            of a method body: the lock calls, the stores and loads of    *)
(*            the fields of an entry, the iterations of GetAll's copy      *)
(*            loop.  Slices are references to arrays in `heap`, and a      *)
(*            caller may write to what a read returned to it.              *)
(***************************************************************************)
EXTENDS Integers, Sequences, FiniteSets, TLC

(***************************************************************************)
(* Bounds and program constants.                                           *)
(***************************************************************************)
\* Longest symbol list the upstream universe call returns in the model.
MaxSyms == 3
\* CandleFetcherActor.batchSize (10 in NewCandleFetcherActor), scaled down.
BatchSize == 2
\* Last value of the clock; upstream calls stop when it is reached.
MaxTime == 6
\* The maxRetries argument fetchAllCandles passes to FetchCandlesWithRetry.
MaxRetries == 3
\* SpecPart: longest symbol list and largest batch size.
MaxPartLen == 4
MaxPartBatch == 3
\* SpecRetry: largest maxRetries.
MaxAttempts == 4
\* SpecTick: the periodic messages a repeater sends to its actor.
MaxTicks == 2
\* SpecUniverse: the most entries of the universe the meta endpoint lists.
MaxUniverse == 3
\* SpecServe: the longest symbol name and the most entries in the cache.
MaxNameLen == 2
MaxEntries == 2
\* SpecCache: the Set calls made, and the writes a caller makes to one
\* returned mapping.
MaxSets == 2
MaxMuts == 1

Keys == {"a", "b", "c"}

\* A Candle is abstracted to one integer; the bar sequences upstream returns.
BarSeqs == {<<>>, <<1>>, <<2, 3>>}

\* Errors are tuples, the nil error the empty one.  The errors one upstream
\* call can return: "request failed: ..." and "API returned status ...".
RequestErr == <<"request failed">>
StatusErr == <<"API returned status">>
ReadErr == <<"failed to read response">>
ParseErr == <<"failed to parse response">>
Errs == {RequestErr, StatusErr}
NoErr == <<>>
\* The nil slice.
Nil == <<>>

\* time.Time{}: the zero time.  The clock starts after it.
ZeroTime == 0

Range(s) == {s[j] : j \in 1..Len(s)}

RECURSIVE SeqsUpTo(_, _)
SeqsUpTo(S, n) ==
  IF n = 0 THEN {<<>>}
  ELSE LET shorter == SeqsUpTo(S, n - 1)
       IN  shorter \cup {Append(s, x) : s \in {t \in shorter : Len(t) = n - 1}, x \in S}

VARIABLES
  \* Cache
  data,            \* c.data: map symbol -> CacheEntry
  symbols,         \* c.symbols
  lastUpdate,      \* c.lastUpdate
  symbolUpdate,    \* c.symbolUpdate
  now,             \* the wall clock read by time.Now()
  performed,       \* history: the writing methods of the cache the actors
                   \* have called
  \* SymbolFetcherActor
  sPc,             \* "idle" | "calling" (inside FetchPerpetualSymbols)
  cachedSymbols,   \* a.cachedSymbols, the fallback copy
  refreshed,       \* history (kept under SpecSym): the last two
                   \* fetchSymbols calls that returned
  sMail,           \* the actor's mailbox and repeater (kept under SpecTick)
  \* CandleFetcherActor.fetchAllCandles
  cPc,             \* "idle" | "skipped" | "launch" | "collect" | "delay" |
                   \* "finished"
  snapshot,        \* the local `symbols`
  batchIdx,        \* loop variable batchIdx (0-based offset)
  launchIdx,       \* offset of the next symbol the launch loop starts
  i,               \* loop variable of the collect loop
  successCount,
  results,         \* the buffered channel `results`
  unit,            \* the goroutines of the cycle, by snapshot position
  \* history of the running cycle (not program state)
  written,         \* snapshot positions whose result was written, in order
  delays,          \* the inter-batch sleeps the cycle has begun
  atStart,         \* the cache and the clock as they were when the cycle
                   \* read the symbols
  cMail,           \* the actor's mailbox and repeater (kept under SpecTick)
  \* SpecPart: the batch loop
  pSyms,           \* symbols
  pB,              \* a.batchSize
  pIdx,            \* batchIdx
  pBatches,        \* the batches formed so far, in order
  pRanges,         \* the snapshot positions <<first, last>> of each
  \* SpecRetry: one FetchCandlesWithRetry call
  rMax,            \* maxRetries
  rFrame,          \* the call's frame
  rLog,            \* the FetchCandles calls and sleeps made, in order
  rStore,          \* what the collect loop stored and counted for it
  \* SpecCache: the callers of the cache
  mu,              \* c.mu: the writer holding it, the readers holding it,
                   \* the writers blocked in Lock()
  th,              \* each calling goroutine: where it is and its locals
  heap,            \* the arrays the candle slices point into
  nSets,           \* Set calls made
  commits,         \* history: the entries Set calls have stored in full
  stable,          \* history: c.data as of the last completed store
  \* SpecServe: the HTTP handlers
  resp,            \* the last request handled and the response written
  \* SpecUniverse: one FetchPerpetualSymbols call
  reply,           \* what the meta endpoint answered
  fetched          \* what FetchPerpetualSymbols returned

cacheVars == <<data, symbols, lastUpdate, symbolUpdate, now, performed>>
symVars   == <<sPc, cachedSymbols, refreshed, sMail>>
cycleVars == <<cPc, snapshot, batchIdx, launchIdx, i, successCount, results,
               unit, written, delays, atStart, cMail>>
pipeVars  == <<cacheVars, symVars, cycleVars>>
partVars  == <<pSyms, pB, pIdx, pBatches, pRanges>>
retryVars == <<rMax, rFrame, rLog, rStore>>
lockVars  == <<mu, th, heap, nSets, commits, stable>>
httpVars  == <<resp, reply, fetched>>
vars == <<pipeVars, partVars, retryVars, lockVars, httpVars>>
\* What the actions of each specification leave alone.
offPipe == <<partVars, retryVars, lockVars, httpVars>>
offPart == <<pipeVars, retryVars, lockVars, httpVars>>
offRetry == <<pipeVars, partVars, lockVars, httpVars>>
offCache == <<symbols, symbolUpdate, performed, symVars, cycleVars, partVars,
              retryVars, httpVars>>
offServe == <<symVars, cycleVars, partVars, retryVars, lockVars, reply, fetched>>
offUniverse == <<pipeVars, partVars, retryVars, lockVars, resp>>
offLock == <<pipeVars, partVars, retryVars, httpVars, heap, nSets, commits, stable>>

(***************************************************************************)
(* Cache (atomic view: every method body runs under c.mu).                 *)
(***************************************************************************)
NewEntry(symbol, candles, t) ==
  [Symbol |-> symbol, Candles |-> candles, LastUpdate |-> t]

ZeroEntry == NewEntry("", Nil, ZeroTime)

\* A store that leaves the map with the one entry stored.
MapStoreAlone(m, k, v) == [x \in {k} |-> v]

\* c.data[symbol] = CacheEntry{...}
MapStore(m, k, v) == [x \in DOMAIN m \cup {k} |-> IF x = k THEN v ELSE m[x]]

\* Set without its last statement: c.lastUpdate is left as it was.
SetNoStamp(symbol, candles, d) ==
  /\ now + d <= MaxTime
  /\ data' = MapStore(data, symbol, NewEntry(symbol, candles, now))
  /\ now' = now + d
  /\ performed' = performed \cup {"Set"}
  /\ UNCHANGED <<lastUpdate, symbols, symbolUpdate>>

\* Cache.Set: two reads of time.Now(), the second d later than the first.
Set(symbol, candles, d) ==
  /\ now + d <= MaxTime
  /\ data' = MapStore(data, symbol, NewEntry(symbol, candles, now))
  /\ lastUpdate' = now + d
  /\ now' = now + d
  /\ performed' = performed \cup {"Set"}
  /\ UNCHANGED <<symbols, symbolUpdate>>

\* Cache.Get
Get(symbol) ==
  IF symbol \in DOMAIN data THEN <<data[symbol], TRUE>> ELSE <<ZeroEntry, FALSE>>

\* Cache.GetAll
GetAll == [k \in DOMAIN data |-> data[k]]

\* A SetSymbols that leaves c.symbolUpdate as it was.
SetSymbolsKeepStamp(syms, t) ==
  /\ symbols' = syms
  /\ performed' = performed \cup {"SetSymbols"}
  /\ UNCHANGED symbolUpdate

\* A SetSymbols that appends to the list it finds.
SetSymbolsMerge(syms, t) ==
  /\ symbols' = symbols \o syms
  /\ symbolUpdate' = t
  /\ performed' = performed \cup {"SetSymbols"}

\* Cache.SetSymbols, called when the clock reads t.
SetSymbols(syms, t) ==
  /\ symbols' = syms
  /\ symbolUpdate' = t
  /\ performed' = performed \cup {"SetSymbols"}

\* Cache.GetSymbols
GetSymbols == symbols

GetLastUpdate == lastUpdate

GetSymbolUpdate == symbolUpdate

(***************************************************************************)
(* HyperliquidClient.FetchCandlesWithRetry as a frame                      *)
(* [pc, attempt, lastErr, ret] stepped by the outcome of each FetchCandles *)
(* call and by the end of each sleep.                                      *)
(***************************************************************************)
\* What one FetchCandles call returns, for given bar sequences and errors.
FetchOutcomes(bars, errs) ==
  [candles : bars, err : {NoErr}] \cup [candles : {Nil}, err : errs]

\* The outcomes of the FetchCandles calls of a refresh cycle.
CycleOutcomes == FetchOutcomes({<<1>>, <<2, 3>>}, {RequestErr})

\* fmt.Errorf("failed after %d retries: %w", maxRetries, lastErr)
Wrap(maxRetries, lastErr) == <<"failed after", maxRetries, lastErr>>

NoRet == [candles |-> Nil, err |-> NoErr]

\* The loop test `attempt < maxRetries` and the return after the loop.
RetryLoop(f, maxRetries) ==
  IF f.attempt < maxRetries
  THEN [f EXCEPT !.pc = "call"]
  ELSE [f EXCEPT !.pc = "ret",
                 !.ret = [candles |-> Nil, err |-> Wrap(maxRetries, f.lastErr)]]

RetryStart(maxRetries) ==
  RetryLoop([pc |-> "call", attempt |-> 0, lastErr |-> NoErr, ret |-> NoRet],
            maxRetries)

\* A sleep follows every failed attempt, the last one too.
SleepsAlways(attempt, maxRetries) == attempt < maxRetries

\* `attempt < maxRetries-1`: a sleep follows the failed attempt.
SleepsAfter(attempt, maxRetries) == attempt < maxRetries - 1

\* A backoff that grows by one second per attempt.
BackoffLinear(attempt) == attempt + 1

\* time.Duration(1<<uint(attempt)) * time.Second, in seconds.
Backoff(attempt) == 2 ^ attempt

\* The body of the loop after FetchCandles returned `out`.
RetryAfterCall(f, out, maxRetries) ==
  IF out.err = NoErr
  THEN [f EXCEPT !.pc = "ret", !.ret = [candles |-> out.candles, err |-> NoErr]]
  ELSE LET g == [f EXCEPT !.lastErr = out.err]
       IN  IF SleepsAfter(f.attempt, maxRetries)
           THEN [g EXCEPT !.pc = "sleep"]
           ELSE RetryLoop([g EXCEPT !.attempt = @ + 1], maxRetries)

\* time.Sleep(backoff) returned: attempt++ and the loop test.
RetryAfterSleep(f, maxRetries) ==
  RetryLoop([f EXCEPT !.attempt = @ + 1], maxRetries)

(***************************************************************************)
(* Receive of the two actors.  An actor handles one message at a time:     *)
(* actor.Started, which is the first it gets, and then the messages its    *)
(* repeater sends it (FetchSymbolsMsg, FetchCandlesMsg), a message in the  *)
(* mailbox waiting while a handler runs.  Under the specifications that    *)
(* do not keep the mailboxes (`on` is false) an idle actor always finds a  *)
(* message.                                                                *)
(*   started  actor.Started has been taken                                 *)
(*   first    the handler of actor.Started is running its routine          *)
(*   repeat   ctx.SendRepeat has been called                               *)
(*   pending  periodic messages in the mailbox                             *)
(*   sent, handled, runs   history: periodic messages sent, periodic       *)
(*            messages taken, runs of the routine started                  *)
(***************************************************************************)
MailOff == [on |-> FALSE, started |-> FALSE, first |-> FALSE, repeat |-> FALSE,
            pending |-> 0, sent |-> 0, handled |-> 0, runs |-> 0]

\* The actor has been spawned: actor.Started is on its way.
MailOn == [MailOff EXCEPT !.on = TRUE]

\* A routine that runs whether or not a message has come.
HasMessageAlways(m) == TRUE

\* The idle actor has a message to handle.
HasMessage(m) == ~m.on \/ ~m.started \/ m.pending > 0

\* Receive takes the next message and calls the routine:
\* `case actor.Started:` or `case FetchSymbolsMsg:` / `case FetchCandlesMsg:`.
Take(m) ==
  IF ~m.on THEN m
  ELSE IF ~m.started
       THEN [m EXCEPT !.started = TRUE, !.first = TRUE, !.runs = @ + 1]
       ELSE [m EXCEPT !.pending = @ - 1, !.handled = @ + 1, !.runs = @ + 1]

\* The routine returned: the handler of actor.Started goes on to
\* ctx.SendRepeat(ctx.PID(), ..., a.refreshInterval); the other returns.
AfterRun(m) ==
  IF m.on /\ m.first THEN [m EXCEPT !.first = FALSE, !.repeat = TRUE] ELSE m

\* The repeater can send: it has been set up and has messages left to send.
CanTick(m) == m.on /\ m.repeat /\ m.sent < MaxTicks

\* The interval has passed: the repeater puts a message in the mailbox.
Ticked(m) == [m EXCEPT !.pending = @ + 1, !.sent = @ + 1]

(***************************************************************************)
(* SymbolFetcherActor.fetchSymbols                                         *)
(***************************************************************************)
\* The symbol lists FetchPerpetualSymbols returns in the model: none, one
\* symbol, a list in another order, a list naming a symbol twice, and the
\* longest list (the keys in turn).
KeySeq == <<"a", "b", "c">>

LongList == [j \in 1..MaxSyms |-> KeySeq[((j - 1) % 3) + 1]]

SymbolLists == {<<>>, <<"a">>, <<"b", "a">>, <<"c", "c">>, LongList}

\* What FetchPerpetualSymbols returns: the filtered names, or an error.
SymbolResults ==
  [symbols : SymbolLists, err : {NoErr}] \cup [symbols : {Nil}, err : {RequestErr}]

\* A symbol fetcher that shares its goroutine with the candle fetcher: it
\* starts a refresh only between cycles.
SymFetchStartBetweenCycles ==
  /\ sPc = "idle"
  /\ cPc = "idle"
  /\ HasMessage(sMail)
  /\ sMail' = Take(sMail)
  /\ sPc' = "calling"
  /\ UNCHANGED <<cacheVars, cachedSymbols, refreshed, cycleVars, offPipe>>

\* Receive takes a message and calls fetchSymbols, which calls
\* FetchPerpetualSymbols.
SymFetchStart ==
  /\ sPc = "idle"
  /\ HasMessage(sMail)
  /\ sMail' = Take(sMail)
  /\ sPc' = "calling"
  /\ UNCHANGED <<cacheVars, cachedSymbols, refreshed, cycleVars, offPipe>>

\* The repeater of the symbol fetcher sends FetchSymbolsMsg.
SymTick ==
  /\ CanTick(sMail)
  /\ sMail' = Ticked(sMail)
  /\ UNCHANGED <<cacheVars, sPc, cachedSymbols, refreshed, cycleVars, offPipe>>

\* The symbol list, its timestamp and the fallback copy.
SymbolState ==
  [symbols |-> symbols, symbolUpdate |-> symbolUpdate,
   cachedSymbols |-> cachedSymbols]

HistoryOff == [on |-> FALSE, log |-> <<>>]

HistoryOn == [on |-> TRUE, log |-> <<>>]

\* The refresh that returns `r` joins the history, which keeps two.
Remember(r) ==
  IF refreshed.on
  THEN [refreshed EXCEPT !.log =
          (IF @ = <<>> THEN <<>> ELSE <<@[Len(@)]>>)
          \o <<[res |-> r, before |-> SymbolState]>>]
  ELSE refreshed

\* An error branch that empties the cache's list.
OnFetchErrorClears(t) == SetSymbols(<<>>, t)

\* An error branch that stamps the symbol list without a SetSymbols call.
OnFetchErrorStamps(t) ==
  /\ symbolUpdate' = t
  /\ UNCHANGED <<symbols, performed>>

\* if err != nil: the fallback copy, if there is one, is written to the
\* cache; return.
OnFetchError(t) ==
  IF Len(cachedSymbols) > 0
  THEN SetSymbols(cachedSymbols, t)
  ELSE UNCHANGED <<symbols, symbolUpdate, performed>>

\* A test that takes no list for empty.
NeverEmpty(syms) == FALSE

\* if len(symbols) == 0
IsEmptyList(syms) == Len(syms) = 0

\* A fallback copy that is taken once and kept.
NewFallbackOnce(syms) == IF cachedSymbols = <<>> THEN syms ELSE cachedSymbols

\* a.cachedSymbols = symbols
NewFallback(syms) == syms

\* FetchPerpetualSymbols returned `r`; the rest of fetchSymbols.
SymFetchReturn(r) ==
  /\ sPc = "calling"
  /\ now < MaxTime
  /\ now' = now + 1
  /\ sPc' = "idle"
  /\ refreshed' = Remember(r)
  /\ sMail' = AfterRun(sMail)
  /\ IF r.err # NoErr
     THEN /\ OnFetchError(now + 1)
          /\ UNCHANGED cachedSymbols
     ELSE IF IsEmptyList(r.symbols)
          THEN UNCHANGED <<symbols, symbolUpdate, performed, cachedSymbols>>
          ELSE /\ SetSymbols(r.symbols, now + 1)
               /\ cachedSymbols' = NewFallback(r.symbols)
  /\ UNCHANGED <<data, lastUpdate, cycleVars, offPipe>>

(***************************************************************************)
(* CandleFetcherActor.fetchAllCandles                                      *)
(***************************************************************************)
\* totalBatches := (len(symbols) + a.batchSize - 1) / a.batchSize
TotalBatches(n, b) == (n + b - 1) \div b

\* The clamp of `end` one short of the list's end.
BatchEndShort(idx, n, b) == IF idx + b > n - 1 THEN n - 1 ELSE idx + b

\* end := batchIdx + a.batchSize; if end > len(symbols) { end = len(symbols) }
BatchEnd(idx, n, b) == IF idx + b > n THEN n ELSE idx + b

\* batch := symbols[batchIdx:end]
Batch(syms, idx, b) == SubSeq(syms, idx + 1, BatchEnd(idx, Len(syms), b))

\* currentBatch := (batchIdx / a.batchSize) + 1
CurrentBatch(idx, b) == (idx \div b) + 1

\* The snapshot positions (1-based) of the batch at offset idx.
BatchPositions(idx, n, b) == (idx + 1)..BatchEnd(idx, n, b)

NotLaunched == [pc |-> "none", attempt |-> 0, lastErr |-> NoErr, ret |-> NoRet]

NoStart == [lastUpdate |-> ZeroTime, data |-> <<>>, symbols |-> <<>>,
            now |-> ZeroTime]

\* The cache and the clock at the one GetSymbols call of a cycle.
StartOfCycle ==
  [lastUpdate |-> lastUpdate, data |-> data, symbols |-> symbols, now |-> now]

IdleCycle ==
  /\ cPc' = "idle"
  /\ snapshot' = <<>>
  /\ batchIdx' = 0
  /\ launchIdx' = 0
  /\ i' = 0
  /\ successCount' = 0
  /\ results' = <<>>
  /\ unit' = <<>>
  /\ written' = <<>>
  /\ atStart' = NoStart
  /\ delays' = 0

\* An empty-list branch that stamps the cache before it returns.
CycleSkipStamps ==
  /\ cPc = "idle"
  /\ HasMessage(cMail)
  /\ cMail' = Take(cMail)
  /\ Len(GetSymbols) = 0
  /\ cPc' = "skipped"
  /\ snapshot' = GetSymbols
  /\ atStart' = StartOfCycle
  /\ delays' = 0
  /\ lastUpdate' = now
  /\ UNCHANGED <<data, symbols, symbolUpdate, now, performed, symVars, batchIdx,
                 launchIdx, i, successCount, results, unit, written, offPipe>>

\* symbols := a.cache.GetSymbols(); if len(symbols) == 0 { ...; return }
CycleSkip ==
  /\ cPc = "idle"
  /\ HasMessage(cMail)
  /\ cMail' = Take(cMail)
  /\ Len(GetSymbols) = 0
  /\ cPc' = "skipped"
  /\ snapshot' = GetSymbols
  /\ atStart' = StartOfCycle
  /\ delays' = 0
  /\ UNCHANGED <<cacheVars, symVars, batchIdx, launchIdx, i, successCount,
                 results, unit, written, offPipe>>

\* The repeater of the candle fetcher sends FetchCandlesMsg.
CycleTick ==
  /\ CanTick(cMail)
  /\ cMail' = Ticked(cMail)
  /\ UNCHANGED <<cacheVars, symVars, cPc, snapshot, batchIdx, launchIdx, i,
                 successCount, results, unit, written, delays, atStart, offPipe>>

\* A Receive that takes FetchCandlesMsg while a cycle sleeps between two
\* batches.
CycleBeginOverlaps ==
  /\ cPc \in {"idle", "delay"}
  /\ HasMessage(cMail)
  /\ cMail' = Take(cMail)
  /\ Len(GetSymbols) # 0
  /\ snapshot' = GetSymbols
  /\ cPc' = "launch"
  /\ batchIdx' = 0
  /\ launchIdx' = 0
  /\ i' = 0
  /\ successCount' = 0
  /\ results' = <<>>
  /\ unit' = [p \in 1..Len(GetSymbols) |-> NotLaunched]
  /\ written' = <<>>
  /\ atStart' = StartOfCycle
  /\ delays' = 0
  /\ UNCHANGED <<cacheVars, symVars, offPipe>>

CycleBegin ==
  /\ cPc = "idle"
  /\ HasMessage(cMail)
  /\ cMail' = Take(cMail)
  /\ Len(GetSymbols) # 0
  /\ snapshot' = GetSymbols
  /\ cPc' = "launch"
  /\ batchIdx' = 0
  /\ launchIdx' = 0
  /\ i' = 0
  /\ successCount' = 0
  /\ results' = <<>>
  /\ unit' = [p \in 1..Len(GetSymbols) |-> NotLaunched]
  /\ written' = <<>>
  /\ atStart' = StartOfCycle
  /\ delays' = 0
  /\ UNCHANGED <<cacheVars, symVars, offPipe>>

\* The launch loop left after its first goroutine.
LaunchDoneEarly(next) == next >= batchIdx + 1

\* The launch loop has started every goroutine of the batch.
LaunchDone(next) == next >= BatchEnd(batchIdx, Len(snapshot), BatchSize)

\* A launch loop that starts no fetch for a symbol whose entry in the cache
\* is empty: its goroutine reports an error at once.
LaunchSkipsEmpty ==
  /\ cPc = "launch"
  /\ launchIdx < BatchEnd(batchIdx, Len(snapshot), BatchSize)
  /\ unit' = [unit EXCEPT ![launchIdx + 1] =
                IF /\ Get(snapshot[launchIdx + 1])[2]
                   /\ Get(snapshot[launchIdx + 1])[1].Candles = <<>>
                THEN [NotLaunched EXCEPT !.pc = "ret",
                                         !.ret = [candles |-> Nil, err |-> RequestErr]]
                ELSE RetryStart(MaxRetries)]
  /\ launchIdx' = launchIdx + 1
  /\ cPc' = IF LaunchDone(launchIdx + 1) THEN "collect" ELSE "launch"
  /\ UNCHANGED <<cacheVars, symVars, snapshot, batchIdx, i, successCount,
                 results, written, atStart, cMail, delays, offPipe>>

\* for _, symbol := range batch { go func(sym string) {...}(symbol) }
Launch ==
  /\ cPc = "launch"
  /\ launchIdx < BatchEnd(batchIdx, Len(snapshot), BatchSize)
  /\ unit' = [unit EXCEPT ![launchIdx + 1] = RetryStart(MaxRetries)]
  /\ launchIdx' = launchIdx + 1
  /\ cPc' = IF LaunchDone(launchIdx + 1) THEN "collect" ELSE "launch"
  /\ UNCHANGED <<cacheVars, symVars, snapshot, batchIdx, i, successCount,
                 results, written, atStart, cMail, delays, offPipe>>

\* A backoff sleep that stops the whole process: no call returns while a
\* goroutine sleeps.
UnitCallProcessWide(p, out) ==
  /\ cPc # "idle"
  /\ p \in DOMAIN unit
  /\ unit[p].pc = "call"
  /\ \A q \in DOMAIN unit : unit[q].pc # "sleep"
  /\ now < MaxTime
  /\ now' = now + 1
  /\ unit' = [unit EXCEPT ![p] = RetryAfterCall(unit[p], out, MaxRetries)]
  /\ UNCHANGED <<data, symbols, lastUpdate, symbolUpdate, performed, symVars,
                 cPc, snapshot, batchIdx, launchIdx, i, successCount, results,
                 written, atStart, cMail, delays, offPipe>>

\* One FetchCandles call of goroutine p returns `out`.
UnitCall(p, out) ==
  /\ cPc # "idle"
  /\ p \in DOMAIN unit
  /\ unit[p].pc = "call"
  /\ now < MaxTime
  /\ now' = now + 1
  /\ unit' = [unit EXCEPT ![p] = RetryAfterCall(unit[p], out, MaxRetries)]
  /\ UNCHANGED <<data, symbols, lastUpdate, symbolUpdate, performed, symVars,
                 cPc, snapshot, batchIdx, launchIdx, i, successCount, results,
                 written, atStart, cMail, delays, offPipe>>

\* The backoff sleep of goroutine p ends.
UnitWake(p) ==
  /\ cPc # "idle"
  /\ p \in DOMAIN unit
  /\ unit[p].pc = "sleep"
  /\ unit' = [unit EXCEPT ![p] = RetryAfterSleep(unit[p], MaxRetries)]
  /\ UNCHANGED <<cacheVars, symVars, cPc, snapshot, batchIdx, launchIdx, i,
                 successCount, results, written, atStart, cMail, delays, offPipe>>

\* A channel with room for one result fewer than the batch has symbols.
ResultsCapShort == Len(Batch(snapshot, batchIdx, BatchSize)) - 1

\* cap(results) = len(batch)
ResultsCap == Len(Batch(snapshot, batchIdx, BatchSize))

\* A goroutine that reads its symbol from the cache's list when it sends.
SymLive(p) == IF p <= Len(symbols) THEN symbols[p] ELSE snapshot[p]

\* The argument `sym` of the goroutine at snapshot position p: the element
\* of `batch`, a slice of the local `symbols`, the launch loop passed it.
Sym(p) == snapshot[p]

\* results <- result{symbol: sym, candles: candles, err: err}
\* (pos, the snapshot position of the sender, is history.)
UnitSend(p) ==
  /\ cPc # "idle"
  /\ p \in DOMAIN unit
  /\ unit[p].pc = "ret"
  /\ Len(results) < ResultsCap
  /\ results' = Append(results, [symbol |-> Sym(p),
                                 candles |-> unit[p].ret.candles,
                                 err |-> unit[p].ret.err,
                                 pos |-> p])
  /\ unit' = [unit EXCEPT ![p].pc = "done"]
  /\ UNCHANGED <<cacheVars, symVars, cPc, snapshot, batchIdx, launchIdx, i,
                 successCount, written, atStart, cMail, delays, offPipe>>

\* The failure branch keeps the bars the cache holds for the symbol.
StoredKeepStale(res) ==
  IF res.err # NoErr
  THEN IF res.symbol \in DOMAIN data THEN data[res.symbol].Candles ELSE <<>>
  ELSE res.candles

\* What the collect loop stores for a result: []Candle{} for a failure.
Stored(res) == IF res.err # NoErr THEN <<>> ELSE res.candles

\* successCount++ on the success branch only.
Counted(res) == IF res.err # NoErr THEN 0 ELSE 1

\* The collect loop left after its first result.
CollectDoneEarly(n) == n >= 1

\* The collect loop has taken n results: `i < len(batch)` fails.
CollectDone(n) == n >= Len(Batch(snapshot, batchIdx, BatchSize))

\* A batch loop that ends after the batch in which a fetch failed.
NextBatchAborts ==
  /\ batchIdx' = batchIdx + BatchSize
  /\ launchIdx' = batchIdx + BatchSize
  /\ i' = 0
  /\ results' = <<>>
  /\ cPc' = IF /\ batchIdx + BatchSize < Len(snapshot)
               /\ \A p \in DOMAIN unit : unit[p].ret.err = NoErr
            THEN "launch" ELSE "finished"

\* batchIdx += a.batchSize and the loop test `batchIdx < len(symbols)`.
NextBatch ==
  /\ batchIdx' = batchIdx + BatchSize
  /\ launchIdx' = batchIdx + BatchSize
  /\ i' = 0
  /\ results' = <<>>
  /\ cPc' = IF batchIdx + BatchSize < Len(snapshot) THEN "launch" ELSE "finished"

\* A delay after every batch, the last one too.
DelayAlways == TRUE

\* `currentBatch < totalBatches`: the inter-batch delay follows.
DelayFollows ==
  CurrentBatch(batchIdx, BatchSize) < TotalBatches(Len(snapshot), BatchSize)

\* A collect loop that does not wait at an empty channel: it goes on to
\* the next batch.
CollectNoWait(d) ==
  /\ cPc = "collect"
  /\ results = <<>>
  /\ d = 0
  /\ NextBatch
  /\ UNCHANGED <<cacheVars, symVars, snapshot, successCount, unit, written,
                 atStart, cMail, delays, offPipe>>

\* One iteration of `for i := 0; i < len(batch); i++ { res := <-results ... }`
Collect(d) ==
  /\ cPc = "collect"
  /\ ~CollectDone(i)
  /\ results # <<>>
  /\ LET res == Head(results)
     IN  /\ Set(res.symbol, Stored(res), d)
         /\ successCount' = successCount + Counted(res)
         /\ written' = Append(written, res.pos)
         /\ IF ~CollectDone(i + 1)
            THEN /\ i' = i + 1
                 /\ results' = Tail(results)
                 /\ UNCHANGED <<cPc, batchIdx, launchIdx, delays>>
            ELSE IF DelayFollows
                 THEN /\ cPc' = "delay"
                      /\ delays' = delays + 1
                      /\ i' = i + 1
                      /\ results' = Tail(results)
                      /\ UNCHANGED <<batchIdx, launchIdx>>
                 ELSE NextBatch /\ UNCHANGED delays
  /\ UNCHANGED <<symVars, snapshot, unit, atStart, cMail, offPipe>>

\* time.Sleep(a.batchDelay) returns.
DelayEnd ==
  /\ cPc = "delay"
  /\ NextBatch
  /\ UNCHANGED <<cacheVars, symVars, snapshot, successCount, unit, written,
                 atStart, cMail, delays, offPipe>>

\* A cycle that stores its snapshot as the symbol list when it returns.
CycleReturnPublishes ==
  /\ cPc \in {"finished", "skipped"}
  /\ IdleCycle
  /\ cMail' = AfterRun(cMail)
  /\ SetSymbols(snapshot, now)
  /\ UNCHANGED <<data, lastUpdate, now, symVars, offPipe>>

\* fetchAllCandles returns to Receive, after the last batch or from the
\* empty-list branch.
CycleReturn ==
  /\ cPc \in {"finished", "skipped"}
  /\ IdleCycle
  /\ cMail' = AfterRun(cMail)
  /\ UNCHANGED <<cacheVars, symVars, offPipe>>

(***************************************************************************)
(* The Cache statement by statement, under concurrent callers.             *)
(***************************************************************************)
\* The goroutine of the collect loop, the only caller of Set, and the
\* goroutine of an HTTP handler.
Writers == {"collector"}
Readers == {"handler"}
CacheKeys == {"a", "b"}

\* A slice is the array it points into; the empty slice points into none.
EmptySlice == [arr |-> 0]
\* The zero CacheEntry of a map slot not yet filled.
ZeroSlot == NewEntry("", EmptySlice, ZeroTime)

\* The goroutine's locals, at rest.
AtRest == [pc |-> "idle", key |-> "", arg |-> EmptySlice, ent |-> ZeroSlot,
           found |-> FALSE, res |-> <<>>, visited |-> {}, seen |-> {},
           known |-> {}, muts |-> 0]

NoWriter == "none"

LockIdle ==
  /\ mu = [writer |-> NoWriter, readers |-> {}, waiting |-> {}]
  /\ th = [t \in Writers \cup Readers |-> AtRest]
  /\ heap = <<>>
  /\ nSets = 0
  /\ commits = {}
  /\ stable = <<>>

\* A read that does not wait for the mutex.
CanRLockAnyway == TRUE

\* c.mu.RLock() returns: no writer holds the mutex or is blocked in Lock().
CanRLock == mu.writer = NoWriter /\ mu.waiting = {}

\* A Lock() that does not wait for the readers to leave.
CanLockDespiteReaders == mu.writer = NoWriter

\* c.mu.Lock() returns: nobody holds the mutex.
CanLock == mu.writer = NoWriter /\ mu.readers = {}

\* The bars a slice shows.
Bars(sl) == IF sl.arr = 0 THEN <<>> ELSE heap[sl.arr]

\* The keys a Set call has stored in full.
StoredKeys == {e.Symbol : e \in commits}

\* --- Cache.Set ---------------------------------------------------------
\* A goroutine calls Set(k, candles) with the slice FetchCandles made for it
\* (a new array) or with []Candle{}.
SetCall(t, k, bars) ==
  /\ th[t].pc = "idle"
  /\ nSets < MaxSets
  /\ nSets' = nSets + 1
  /\ IF bars = <<>>
     THEN /\ th' = [th EXCEPT ![t].pc = "lock", ![t].key = k,
                              ![t].arg = EmptySlice]
          /\ UNCHANGED heap
     ELSE /\ heap' = Append(heap, bars)
          /\ th' = [th EXCEPT ![t].pc = "lock", ![t].key = k,
                              ![t].arg = [arr |-> Len(heap) + 1]]
  /\ mu' = [mu EXCEPT !.waiting = @ \cup {t}]
  /\ UNCHANGED <<data, lastUpdate, now, commits, stable, offCache>>

\* c.mu.Lock()
SetLock(t) ==
  /\ th[t].pc = "lock"
  /\ CanLock
  /\ mu' = [mu EXCEPT !.writer = t, !.waiting = @ \ {t}]
  /\ th' = [th EXCEPT ![t].pc = "storeSymbol"]
  /\ UNCHANGED <<data, lastUpdate, now, heap, nSets, commits, stable, offCache>>

Slot(k) == IF k \in DOMAIN data THEN data[k] ELSE ZeroSlot

\* c.data[symbol] = CacheEntry{...}: the entry is copied into the map slot
\* field by field.
SetStoreSymbol(t) ==
  /\ th[t].pc = "storeSymbol"
  /\ data' = MapStore(data, th[t].key, [Slot(th[t].key) EXCEPT !.Symbol = th[t].key])
  /\ th' = [th EXCEPT ![t].pc = "storeCandles"]
  /\ UNCHANGED <<lastUpdate, now, mu, heap, nSets, commits, stable, offCache>>

SetStoreCandles(t) ==
  /\ th[t].pc = "storeCandles"
  /\ data' = MapStore(data, th[t].key, [Slot(th[t].key) EXCEPT !.Candles = th[t].arg])
  /\ th' = [th EXCEPT ![t].pc = "storeTime"]
  /\ UNCHANGED <<lastUpdate, now, mu, heap, nSets, commits, stable, offCache>>

\* The last field: the entry is stored in full.
SetStoreTime(t) ==
  /\ th[t].pc = "storeTime"
  /\ data' = MapStore(data, th[t].key, [Slot(th[t].key) EXCEPT !.LastUpdate = now])
  /\ commits' = commits \cup {NewEntry(th[t].key, th[t].arg, now)}
  /\ stable' = data'
  /\ th' = [u \in DOMAIN th |->
              IF u = t THEN [th[t] EXCEPT !.pc = "stamp"]
              ELSE IF th[u].pc \in {"rlockAll", "copy"}
                   THEN [th[u] EXCEPT !.seen = @ \cup {data'}]
                   ELSE th[u]]
  /\ UNCHANGED <<lastUpdate, now, mu, heap, nSets, offCache>>

\* A Set that leaves c.lastUpdate as it was.
SetStampSkipped(t, d) ==
  /\ th[t].pc = "stamp"
  /\ now + d <= MaxTime
  /\ now' = now + d
  /\ th' = [th EXCEPT ![t].pc = "unlock"]
  /\ UNCHANGED <<data, lastUpdate, mu, heap, nSets, commits, stable, offCache>>

\* c.lastUpdate = time.Now(), d after the entry's time.
SetStamp(t, d) ==
  /\ th[t].pc = "stamp"
  /\ now + d <= MaxTime
  /\ lastUpdate' = now + d
  /\ now' = now + d
  /\ th' = [th EXCEPT ![t].pc = "unlock"]
  /\ UNCHANGED <<data, mu, heap, nSets, commits, stable, offCache>>

\* defer c.mu.Unlock()
SetUnlock(t) ==
  /\ th[t].pc = "unlock"
  /\ mu' = [mu EXCEPT !.writer = IF @ = t THEN NoWriter ELSE @]
  /\ th' = [th EXCEPT ![t] = AtRest]
  /\ UNCHANGED <<data, lastUpdate, now, heap, nSets, commits, stable, offCache>>

\* --- Cache.Get ---------------------------------------------------------
GetCall(t, k) ==
  /\ th[t].pc = "idle"
  /\ th' = [th EXCEPT ![t].pc = "rlock", ![t].key = k, ![t].known = StoredKeys]
  /\ UNCHANGED <<data, lastUpdate, now, mu, heap, nSets, commits, stable, offCache>>

\* c.mu.RLock()
GetRLock(t) ==
  /\ th[t].pc = "rlock"
  /\ CanRLock
  /\ mu' = [mu EXCEPT !.readers = @ \cup {t}]
  /\ th' = [th EXCEPT ![t].pc = "loadSymbol"]
  /\ UNCHANGED <<data, lastUpdate, now, heap, nSets, commits, stable, offCache>>

\* entry, exists := c.data[symbol]: the slot is looked up and copied out
\* field by field.
GetLoadSymbol(t) ==
  /\ th[t].pc = "loadSymbol"
  /\ IF th[t].key \in DOMAIN data
     THEN th' = [th EXCEPT ![t].pc = "loadCandles", ![t].found = TRUE,
                           ![t].ent = [ZeroSlot EXCEPT !.Symbol = data[th[t].key].Symbol]]
     ELSE th' = [th EXCEPT ![t].pc = "runlock", ![t].found = FALSE,
                           ![t].ent = ZeroSlot]
  /\ UNCHANGED <<data, lastUpdate, now, mu, heap, nSets, commits, stable, offCache>>

GetLoadCandles(t) ==
  /\ th[t].pc = "loadCandles"
  /\ th' = [th EXCEPT ![t].pc = "loadTime",
                      ![t].ent.Candles = data[th[t].key].Candles]
  /\ UNCHANGED <<data, lastUpdate, now, mu, heap, nSets, commits, stable, offCache>>

GetLoadTime(t) ==
  /\ th[t].pc = "loadTime"
  /\ th' = [th EXCEPT ![t].pc = "runlock",
                      ![t].ent.LastUpdate = data[th[t].key].LastUpdate]
  /\ UNCHANGED <<data, lastUpdate, now, mu, heap, nSets, commits, stable, offCache>>

\* defer c.mu.RUnlock(); return entry, exists
GetReturn(t) ==
  /\ th[t].pc = "runlock"
  /\ mu' = [mu EXCEPT !.readers = @ \ {t}]
  /\ th' = [th EXCEPT ![t].pc = "got"]
  /\ UNCHANGED <<data, lastUpdate, now, heap, nSets, commits, stable, offCache>>

\* --- Cache.GetAll ------------------------------------------------------
GetAllCall(t) ==
  /\ th[t].pc = "idle"
  /\ th' = [th EXCEPT ![t].pc = "rlockAll", ![t].seen = {stable}]
  /\ UNCHANGED <<data, lastUpdate, now, mu, heap, nSets, commits, stable, offCache>>

\* c.mu.RLock(); result := make(map[string]CacheEntry, len(c.data))
GetAllRLock(t) ==
  /\ th[t].pc = "rlockAll"
  /\ CanRLock
  /\ mu' = [mu EXCEPT !.readers = @ \cup {t}]
  /\ th' = [th EXCEPT ![t].pc = "copy", ![t].res = <<>>, ![t].visited = {}]
  /\ UNCHANGED <<data, lastUpdate, now, heap, nSets, commits, stable, offCache>>

\* One iteration of `for k, v := range c.data { result[k] = v }`, the keys
\* in any order.
GetAllCopy(t, k) ==
  /\ th[t].pc = "copy"
  /\ k \in DOMAIN data \ th[t].visited
  /\ th' = [th EXCEPT ![t].res = MapStore(@, k, data[k]),
                      ![t].visited = @ \cup {k}]
  /\ UNCHANGED <<data, lastUpdate, now, mu, heap, nSets, commits, stable, offCache>>

\* The range is exhausted; defer c.mu.RUnlock(); return result
GetAllReturn(t) ==
  /\ th[t].pc = "copy"
  /\ DOMAIN data \subseteq th[t].visited
  /\ mu' = [mu EXCEPT !.readers = @ \ {t}]
  /\ th' = [th EXCEPT ![t].pc = "gotAll"]
  /\ UNCHANGED <<data, lastUpdate, now, heap, nSets, commits, stable, offCache>>

\* --- What a caller does with what it got ---------------------------------
\* result[k] = e: the caller adds or replaces an entry of its mapping.
MutPut(t, k) ==
  /\ th[t].pc = "gotAll"
  /\ th[t].muts < MaxMuts
  /\ th' = [th EXCEPT ![t].res = MapStore(@, k, NewEntry("x", EmptySlice, ZeroTime)),
                      ![t].muts = @ + 1]
  /\ UNCHANGED <<data, lastUpdate, now, mu, heap, nSets, commits, stable, offCache>>

\* delete(result, k)
MutDelete(t, k) ==
  /\ th[t].pc = "gotAll"
  /\ th[t].muts < MaxMuts
  /\ k \in DOMAIN th[t].res
  /\ th' = [th EXCEPT ![t].res = [x \in DOMAIN @ \ {k} |-> @[x]],
                      ![t].muts = @ + 1]
  /\ UNCHANGED <<data, lastUpdate, now, mu, heap, nSets, commits, stable, offCache>>

\* result[k].Candles[j] = Candle{}: the caller overwrites a bar of a
\* returned entry with the zero bar; the slice header was copied, the array
\* was not.
MutBar(t, k, j) ==
  /\ th[t].pc = "gotAll"
  /\ th[t].muts < MaxMuts
  /\ k \in DOMAIN th[t].res
  /\ th[t].res[k].Candles.arr # 0
  /\ j \in 1..Len(heap[th[t].res[k].Candles.arr])
  /\ heap' = [heap EXCEPT ![th[t].res[k].Candles.arr][j] = 0]
  /\ th' = [th EXCEPT ![t].muts = @ + 1]
  /\ UNCHANGED <<data, lastUpdate, now, mu, nSets, commits, stable, offCache>>

\* The caller drops what it got.
Release(t) ==
  /\ th[t].pc \in {"got", "gotAll"}
  /\ th' = [th EXCEPT ![t] = AtRest]
  /\ UNCHANGED <<data, lastUpdate, now, mu, heap, nSets, commits, stable, offCache>>

(***************************************************************************)
(* FetchPerpetualSymbols.  A field of a JSON object is <<>> when the       *)
(* object has no such field and <<v>> when it has the value v.             *)
(***************************************************************************)
RawItems == [name : {<<>>, <<"">>, <<"a">>, <<"b">>},
             isDelisted : {<<>>, <<TRUE>>, <<FALSE>>}]

\* json.Unmarshal of one universe entry into the MetaResponse struct: a
\* field the object lacks keeps its zero value.
Decode(raw) ==
  [Name |-> IF raw.name = <<>> THEN "" ELSE raw.name[1],
   IsDelisted |-> IF raw.isDelisted = <<>> THEN FALSE ELSE raw.isDelisted[1]]

Unmarshal(universe) == [j \in 1..Len(universe) |-> Decode(universe[j])]

\* What POST /info can answer: no answer, a status other than 200, a body
\* that cannot be read, a body json.Unmarshal rejects, or a universe.
Reply(neterr, status, readable, json, universe) ==
  [neterr |-> neterr, status |-> status, readable |-> readable, json |-> json,
   universe |-> universe]

Replies ==
  {Reply(TRUE, 0, FALSE, FALSE, <<>>), Reply(FALSE, 500, TRUE, FALSE, <<>>),
   Reply(FALSE, 200, FALSE, FALSE, <<>>), Reply(FALSE, 200, TRUE, FALSE, <<>>)}
  \cup {Reply(FALSE, 200, TRUE, TRUE, u) : u \in SeqsUpTo(RawItems, MaxUniverse)}

KeepAllNamed(item) == item.Name # ""

\* The condition of the filter loop.
Keep(item) == item.Name # "" /\ ~item.IsDelisted

\* The filter loop over response.Universe.
RECURSIVE Extract(_)
Extract(universe) ==
  IF universe = <<>> THEN <<>>
  ELSE LET rest == Extract(Tail(universe))
       IN  IF Keep(Head(universe)) THEN <<Head(universe).Name>> \o rest ELSE rest

FetchPerpetualSymbols(r) ==
  IF r.neterr THEN [symbols |-> Nil, err |-> RequestErr]
  ELSE IF r.status # 200 THEN [symbols |-> Nil, err |-> StatusErr]
  ELSE IF ~r.readable THEN [symbols |-> Nil, err |-> ReadErr]
  ELSE IF ~r.json THEN [symbols |-> Nil, err |-> ParseErr]
  ELSE [symbols |-> Extract(Unmarshal(r.universe)), err |-> NoErr]

NoReply == [sent |-> FALSE, r |-> Reply(FALSE, 0, FALSE, FALSE, <<>>)]

NoFetch == [done |-> FALSE, symbols |-> Nil, err |-> NoErr]

\* c.httpClient.Do(req): the request is answered.
UniverseCall(r) ==
  /\ ~reply.sent
  /\ reply' = [sent |-> TRUE, r |-> r]
  /\ UNCHANGED <<fetched, offUniverse>>

\* FetchPerpetualSymbols returns.
UniverseReturn ==
  /\ reply.sent
  /\ ~fetched.done
  /\ fetched' = [done |-> TRUE, symbols |-> FetchPerpetualSymbols(reply.r).symbols,
                 err |-> FetchPerpetualSymbols(reply.r).err]
  /\ UNCHANGED <<reply, offUniverse>>

(***************************************************************************)
(* handleGetSymbolCandles.  A string is the sequence of its letters; the   *)
(* letters of the model are k and K.                                       *)
(***************************************************************************)
Letters == {"k", "K"}

\* unicode.ToUpper of one letter.
UpperLetter(ch) == IF ch = "k" THEN "K" ELSE ch

\* strings.ToUpper
ToUpper(str) == [j \in 1..Len(str) |-> UpperLetter(str[j])]

\* The symbol names the upstream universe can list, and what can follow
\* "/api/candles/" in a request path.
Names == SeqsUpTo(Letters, MaxNameLen) \ {<<>>}

Suffixes == SeqsUpTo(Letters, MaxNameLen)

NoResponse == [method |-> "", suffix |-> <<>>, status |-> 0, body |-> ZeroEntry,
               had |-> FALSE, held |-> ZeroEntry]

HttpIdle == resp = NoResponse /\ reply = NoReply /\ fetched = NoFetch

\* The status and body handleGetSymbolCandles writes for a request:
\* 405 for another method than GET, 400 for no symbol, 404 when cache.Get
\* finds nothing under the upper-cased symbol, else 200 and the entry.
Respond(method, suffix) ==
  LET symbol == ToUpper(suffix)
  IN  IF method # "GET" THEN [status |-> 405, body |-> ZeroEntry]
      ELSE IF symbol = <<>> THEN [status |-> 400, body |-> ZeroEntry]
      ELSE IF ~Get(symbol)[2] THEN [status |-> 404, body |-> ZeroEntry]
      ELSE [status |-> 200, body |-> Get(symbol)[1]]

\* A request for /api/candles/<suffix> is handled.  (had, held: history,
\* whether the cache had an entry under the suffix as written, and which.)
HandleGetSymbolCandles(method, suffix) ==
  /\ resp' = [method |-> method, suffix |-> suffix,
              status |-> Respond(method, suffix).status,
              body |-> Respond(method, suffix).body,
              had |-> Get(suffix)[2], held |-> Get(suffix)[1]]
  /\ UNCHANGED <<cacheVars, offServe>>

\* The collect loop stores the bars fetched for a symbol, under the name
\* the upstream universe gave it.
Cached(name, bars) ==
  /\ name \in DOMAIN data \/ Cardinality(DOMAIN data) < MaxEntries
  /\ Set(name, bars, 0)
  /\ UNCHANGED <<resp, offServe>>

(***************************************************************************)
(* The pipeline.                                                           *)
(***************************************************************************)
PipeStart ==
  /\ data = <<>>
  /\ symbols = <<>>
  /\ lastUpdate = ZeroTime
  /\ symbolUpdate = ZeroTime
  /\ now = 1
  /\ performed = {}
  /\ sPc = "idle"
  /\ cachedSymbols = <<>>
  /\ cPc = "idle"
  /\ snapshot = <<>>
  /\ batchIdx = 0
  /\ launchIdx = 0
  /\ i = 0
  /\ successCount = 0
  /\ results = <<>>
  /\ unit = <<>>
  /\ written = <<>>
  /\ atStart = NoStart
  /\ delays = 0

PipeInit ==
  /\ PipeStart
  /\ refreshed = HistoryOff
  /\ sMail = MailOff
  /\ cMail = MailOff

\* The batch loop and the retry call at rest.
PartIdle ==
  /\ pSyms = <<>>
  /\ pB = 1
  /\ pIdx = 0
  /\ pBatches = <<>>
  /\ pRanges = <<>>

NoStore == [candles |-> Nil, counted |-> -1]

RetryIdle ==
  /\ rMax = 0
  /\ rFrame = NotLaunched
  /\ rLog = <<>>
  /\ rStore = NoStore

Init == PipeInit /\ PartIdle /\ RetryIdle /\ LockIdle /\ HttpIdle

Next ==
  \/ SymFetchStart
  \/ \E r \in SymbolResults : SymFetchReturn(r)
  \/ CycleSkip
  \/ CycleBegin
  \/ Launch
  \/ \E p \in 1..MaxSyms, out \in CycleOutcomes : UnitCall(p, out)
  \/ \E p \in 1..MaxSyms : UnitWake(p)
  \/ \E p \in 1..MaxSyms : UnitSend(p)
  \/ \E d \in {0, 1} : Collect(d)
  \/ DelayEnd
  \/ CycleReturn

Spec == Init /\ [][Next]_vars

(***************************************************************************)
(* SpecPart: the batch loop of fetchAllCandles,                            *)
(*   for batchIdx := 0; batchIdx < len(symbols); batchIdx += a.batchSize   *)
(* over a symbol list of 1..MaxPartLen entries (the empty list returns     *)
(* before the loop) and a batch size of 1..MaxPartBatch.                   *)
(***************************************************************************)
PartInit ==
  /\ pSyms \in {s \in SeqsUpTo(Keys, MaxPartLen) : Len(s) >= 1}
  /\ pB \in 1..MaxPartBatch
  /\ pIdx = 0
  /\ pBatches = <<>>
  /\ pRanges = <<>>
  /\ PipeInit
  /\ RetryIdle
  /\ LockIdle
  /\ HttpIdle

\* One iteration: the batch is cut out of the symbols.
PartStep ==
  /\ pIdx < Len(pSyms)
  /\ pBatches' = Append(pBatches, Batch(pSyms, pIdx, pB))
  /\ pRanges' = Append(pRanges, <<pIdx + 1, BatchEnd(pIdx, Len(pSyms), pB)>>)
  /\ pIdx' = pIdx + pB
  /\ UNCHANGED <<pSyms, pB, offPart>>

PartNext == PartStep

SpecPart == PartInit /\ [][PartNext]_vars

(***************************************************************************)
(* SpecRetry: one call FetchCandlesWithRetry(..., maxRetries) with         *)
(* maxRetries in 1..MaxAttempts, every FetchCandles outcome, and then the  *)
(* branch of the collect loop that handles the returned result.            *)
(***************************************************************************)
RetryInit ==
  /\ rMax \in 1..MaxAttempts
  /\ rFrame = RetryStart(rMax)
  /\ rLog = <<>>
  /\ rStore = NoStore
  /\ PipeInit
  /\ PartIdle
  /\ LockIdle
  /\ HttpIdle

\* FetchCandles returns `out`; a failure with attempts left starts the sleep.
RetryCall(out) ==
  /\ rFrame.pc = "call"
  /\ rFrame' = RetryAfterCall(rFrame, out, rMax)
  /\ rLog' = IF rFrame'.pc = "sleep"
             THEN rLog \o <<[ev |-> "call", out |-> out],
                            [ev |-> "sleep", dur |-> Backoff(rFrame.attempt)]>>
             ELSE Append(rLog, [ev |-> "call", out |-> out])
  /\ UNCHANGED <<rMax, rStore, offRetry>>

\* time.Sleep returns.
RetryWake ==
  /\ rFrame.pc = "sleep"
  /\ rFrame' = RetryAfterSleep(rFrame, rMax)
  /\ UNCHANGED <<rMax, rLog, rStore, offRetry>>

\* The collect loop's branch on res.err for the returned result.
RetryHandled ==
  /\ rFrame.pc = "ret"
  /\ rStore = NoStore
  /\ LET res == [symbol |-> "a", candles |-> rFrame.ret.candles,
                 err |-> rFrame.ret.err]
     IN  rStore' = [candles |-> Stored(res), counted |-> Counted(res)]
  /\ UNCHANGED <<rMax, rFrame, rLog, offRetry>>

RetryNext ==
  \/ \E out \in FetchOutcomes(BarSeqs, Errs) : RetryCall(out)
  \/ RetryWake
  \/ RetryHandled

SpecRetry == RetryInit /\ [][RetryNext]_vars

(***************************************************************************)
(* SpecSym: the symbol fetcher, one fetchSymbols call after another (the   *)
(* one of actor.Started, then one per FetchSymbolsMsg), every result of    *)
(* FetchPerpetualSymbols each time.                                        *)
(***************************************************************************)
SymInit ==
  /\ PipeStart
  /\ refreshed = HistoryOn
  /\ sMail = MailOff
  /\ cMail = MailOff
  /\ PartIdle
  /\ RetryIdle
  /\ LockIdle
  /\ HttpIdle

SymNext ==
  \/ SymFetchStart
  \/ \E r \in SymbolResults : SymFetchReturn(r)

SpecSym == SymInit /\ [][SymNext]_vars

(***************************************************************************)
(* SpecTick: the two actors as the engine runs them.  Each is sent         *)
(* actor.Started when spawned and handles it by running its routine and    *)
(* then setting up a repeater, which sends it up to MaxTicks periodic      *)
(* messages at any later time.                                             *)
(***************************************************************************)
TickInit ==
  /\ PipeStart
  /\ refreshed = HistoryOff
  /\ sMail = MailOn
  /\ cMail = MailOn
  /\ PartIdle
  /\ RetryIdle
  /\ LockIdle
  /\ HttpIdle

\* What the upstream calls return under SpecTick: the longest list or an
\* error, one bar or an error.
TickSymbolResults ==
  {r \in SymbolResults : r.err # NoErr \/ r.symbols = LongList}

TickOutcomes == FetchOutcomes({<<1>>}, {RequestErr})

TickNext ==
  \/ SymFetchStart
  \/ \E r \in TickSymbolResults : SymFetchReturn(r)
  \/ SymTick
  \/ CycleSkip
  \/ CycleBegin
  \/ CycleTick
  \/ Launch
  \/ \E p \in 1..MaxSyms, out \in TickOutcomes : UnitCall(p, out)
  \/ \E p \in 1..MaxSyms : UnitWake(p)
  \/ \E p \in 1..MaxSyms : UnitSend(p)
  \/ \E d \in {0, 1} : Collect(d)
  \/ DelayEnd
  \/ CycleReturn

SpecTick == TickInit /\ [][TickNext]_vars

(***************************************************************************)
(* SpecLive: the candle fetcher running cycle after cycle once the symbol  *)
(* fetcher has stored a list (at the clock's first reading).  The Go       *)
(* scheduler runs every runnable goroutine, a sleep ends, and a send to    *)
(* `results`, whose capacity is the batch length, does not wait: a step of *)
(* the cycle that stays possible is taken.  An upstream call returns       *)
(* while the clock has a reading left.                                     *)
(***************************************************************************)
LiveInit ==
  /\ data = <<>>
  /\ symbols \in SymbolLists \ {<<>>}
  /\ lastUpdate = ZeroTime
  /\ symbolUpdate = 1
  /\ now = 1
  /\ performed = {"SetSymbols"}
  /\ sPc = "idle"
  /\ cachedSymbols = symbols
  /\ refreshed = HistoryOff
  /\ sMail = MailOff
  /\ cMail = MailOff
  /\ cPc = "idle"
  /\ snapshot = <<>>
  /\ batchIdx = 0
  /\ launchIdx = 0
  /\ i = 0
  /\ successCount = 0
  /\ results = <<>>
  /\ unit = <<>>
  /\ written = <<>>
  /\ atStart = NoStart
  /\ delays = 0
  /\ PartIdle
  /\ RetryIdle
  /\ LockIdle
  /\ HttpIdle

\* A step of a running cycle.
CycleStep ==
  \/ Launch
  \/ \E p \in 1..MaxSyms, out \in CycleOutcomes : UnitCall(p, out)
  \/ \E p \in 1..MaxSyms : UnitWake(p)
  \/ \E p \in 1..MaxSyms : UnitSend(p)
  \/ \E d \in {0, 1} : Collect(d)
  \/ DelayEnd

LiveNext ==
  \/ CycleBegin
  \/ CycleStep
  \/ CycleReturn

SpecLive == LiveInit /\ [][LiveNext]_vars /\ WF_vars(CycleStep)

(***************************************************************************)
(* SpecUniverse: one call of FetchPerpetualSymbols, on every reply.        *)
(***************************************************************************)
UniverseInit == PipeInit /\ PartIdle /\ RetryIdle /\ LockIdle /\ HttpIdle

UniverseNext ==
  \/ \E r \in Replies : UniverseCall(r)
  \/ UniverseReturn

SpecUniverse == UniverseInit /\ [][UniverseNext]_vars

(***************************************************************************)
(* SpecLock: the callers of the Cache's methods at c.mu.  Every method is  *)
(* c.mu.Lock() or c.mu.RLock(), a deferred unlock, and a body that holds   *)
(* the lock; the body is left out here.  Lock first excludes the other     *)
(* writers, then announces itself, which holds new readers back, and then  *)
(* waits for the readers inside to leave.                                  *)
(***************************************************************************)
Mutating == {"Set", "SetSymbols"}

Reading == {"Get", "GetAll", "GetSymbols", "GetLastUpdate", "GetSymbolUpdate"}

\* The goroutines that call the Cache: the two actors and two requests
\* being served.
Callers == {"collector", "symbolFetcher", "h1", "h2"}

CallsOf(t) ==
  CASE t = "collector" -> {"Set", "GetSymbols", "GetAll"}
    [] t = "symbolFetcher" -> {"SetSymbols", "GetSymbols"}
    [] OTHER -> Reading

Outside == [pc |-> "idle", op |-> ""]

LockInit ==
  /\ PipeInit
  /\ PartIdle
  /\ RetryIdle
  /\ HttpIdle
  /\ mu = [writer |-> NoWriter, readers |-> {}, waiting |-> {}]
  /\ th = [t \in Callers |-> Outside]
  /\ heap = <<>>
  /\ nSets = 0
  /\ commits = {}
  /\ stable = <<>>

\* A method of the Cache is called and reaches its first statement.
MethodCall(t, op) ==
  /\ th[t].pc = "idle"
  /\ th' = [th EXCEPT ![t] = [pc |-> IF op \in Mutating THEN "lock" ELSE "rlock",
                               op |-> op]]
  /\ UNCHANGED <<mu, offLock>>

\* c.mu.Lock(), first half: no other writer is inside Lock or holds the
\* lock; new readers wait from here on.
LockAnnounce(t) ==
  /\ th[t].pc = "lock"
  /\ mu.writer = NoWriter
  /\ mu.waiting = {}
  /\ mu' = [mu EXCEPT !.waiting = {t}]
  /\ th' = [th EXCEPT ![t].pc = "pending"]
  /\ UNCHANGED offLock

\* c.mu.Lock(), second half: the readers have left.
LockAcquire(t) ==
  /\ th[t].pc = "pending"
  /\ CanLock
  /\ mu' = [mu EXCEPT !.writer = t, !.waiting = @ \ {t}]
  /\ th' = [th EXCEPT ![t].pc = "held"]
  /\ UNCHANGED offLock

RLockAcquireAlone(t) ==
  /\ th[t].pc = "rlock"
  /\ CanRLock
  /\ mu.readers = {}
  /\ mu' = [mu EXCEPT !.readers = @ \cup {t}]
  /\ th' = [th EXCEPT ![t].pc = "rheld"]
  /\ UNCHANGED offLock

\* c.mu.RLock()
RLockAcquire(t) ==
  /\ th[t].pc = "rlock"
  /\ CanRLock
  /\ mu' = [mu EXCEPT !.readers = @ \cup {t}]
  /\ th' = [th EXCEPT ![t].pc = "rheld"]
  /\ UNCHANGED offLock

\* The deferred c.mu.Unlock(): the method returns.
UnlockReturn(t) ==
  /\ th[t].pc = "held"
  /\ mu' = [mu EXCEPT !.writer = NoWriter]
  /\ th' = [th EXCEPT ![t] = Outside]
  /\ UNCHANGED offLock

\* The deferred c.mu.RUnlock(): the method returns.
RUnlockReturn(t) ==
  /\ th[t].pc = "rheld"
  /\ mu' = [mu EXCEPT !.readers = @ \ {t}]
  /\ th' = [th EXCEPT ![t] = Outside]
  /\ UNCHANGED offLock

LockNext ==
  \/ \E t \in Callers, op \in Mutating \cup Reading :
       op \in CallsOf(t) /\ MethodCall(t, op)
  \/ \E t \in Callers : LockAnnounce(t)
  \/ \E t \in Callers : LockAcquire(t)
  \/ \E t \in Callers : RLockAcquire(t)
  \/ \E t \in Callers : UnlockReturn(t)
  \/ \E t \in Callers : RUnlockReturn(t)

SpecLock == LockInit /\ [][LockNext]_vars

(***************************************************************************)
(* SpecServe: requests for /api/candles/<symbol> handled between the Set   *)
(* calls of the collect loop.                                              *)
(***************************************************************************)
ServeInit == PipeInit /\ PartIdle /\ RetryIdle /\ LockIdle /\ HttpIdle

ServeNext ==
  \/ \E name \in Names, bars \in {<<>>, <<1>>} : Cached(name, bars)
  \/ \E method \in {"GET", "POST"}, suffix \in Suffixes :
       HandleGetSymbolCandles(method, suffix)

SpecServe == ServeInit /\ [][ServeNext]_vars

(***************************************************************************)
(* SpecCache: Set, Get and GetAll called concurrently.                     *)
(***************************************************************************)
CacheInit == PipeInit /\ PartIdle /\ RetryIdle /\ LockIdle /\ HttpIdle

CacheNext ==
  \/ \E t \in Writers, k \in CacheKeys, bars \in {<<>>, <<1>>, <<2, 3>>} : SetCall(t, k, bars)
  \/ \E t \in Writers : SetLock(t)
  \/ \E t \in Writers : SetStoreSymbol(t)
  \/ \E t \in Writers : SetStoreCandles(t)
  \/ \E t \in Writers : SetStoreTime(t)
  \/ \E t \in Writers, d \in {0, 1} : SetStamp(t, d)
  \/ \E t \in Writers : SetUnlock(t)
  \/ \E t \in Readers, k \in CacheKeys : GetCall(t, k)
  \/ \E t \in Readers : GetRLock(t)
  \/ \E t \in Readers : GetLoadSymbol(t)
  \/ \E t \in Readers : GetLoadCandles(t)
  \/ \E t \in Readers : GetLoadTime(t)
  \/ \E t \in Readers : GetReturn(t)
  \/ \E t \in Readers : GetAllCall(t)
  \/ \E t \in Readers : GetAllRLock(t)
  \/ \E t \in Readers, k \in CacheKeys : GetAllCopy(t, k)
  \/ \E t \in Readers : GetAllReturn(t)
  \/ \E t \in Readers, k \in CacheKeys \cup {"x"} : MutPut(t, k)
  \/ \E t \in Readers, k \in CacheKeys : MutDelete(t, k)
  \/ \E t \in Readers, k \in CacheKeys, j \in 1..2 : MutBar(t, k, j)
  \/ \E t \in Readers : Release(t)

SpecCache == CacheInit /\ [][CacheNext]_vars

(***************************************************************************)
(* Claims about the data-refresh cycle, checked under Spec.                *)
(***************************************************************************)
\* The batch (0-based) of snapshot position p.
BatchOf(p) == (p - 1) \div BatchSize

\* The position whose result was written last for key k in this cycle.
LastWritten(k) ==
  LET js == {j \in 1..Len(written) : snapshot[written[j]] = k}
  IN  written[CHOOSE j \in js : \A j2 \in js : j2 <= j]

WrittenKeys == {snapshot[written[j]] : j \in 1..Len(written)}

\* The goroutines of the running cycle not yet through with their send.
Outstanding == {p \in DOMAIN unit : unit[p].pc \in {"call", "sleep", "ret"}}

\* C1: failure-to-empty.  In a running or finished cycle every key a result
\* was written for is found in the cache, and its bars are empty when the
\* fetch-with-retry written last for it ended in a terminal failure and
\* exactly the bars that fetch returned when it succeeded, whatever the
\* order the goroutines of the batch completed in and whatever the cache
\* held before; at the end of the cycle that covers every key of the
\* snapshot.
C1_FailureToEmpty ==
  cPc # "idle" =>
    /\ \A k \in WrittenKeys :
         LET r == unit[LastWritten(k)].ret
         IN  /\ Get(k)[2]
             /\ r.err # NoErr => Get(k)[1].Candles = <<>>
             /\ r.err = NoErr => Get(k)[1].Candles = r.candles
    /\ cPc = "finished" => WrittenKeys = Range(snapshot)

\* A finished cycle in which a key that held bars before the cycle failed
\* terminally and now holds the empty sequence.
C1_Witness ==
  /\ cPc = "finished"
  /\ \E p \in DOMAIN unit :
       /\ unit[p].ret.err # NoErr
       /\ snapshot[p] \in DOMAIN atStart.data
       /\ atStart.data[snapshot[p]].Candles # <<>>
       /\ Get(snapshot[p]) = <<NewEntry(snapshot[p], <<>>, Get(snapshot[p])[1].LastUpdate), TRUE>>

\* C2: when a cycle over a non-empty snapshot has run to its end, every key
\* of the snapshot has an entry stored under its own name and the data
\* timestamp is later than it was when the cycle started, also when every
\* fetch failed.
C2_CycleFillsCache ==
  cPc = "finished" =>
    /\ Len(snapshot) > 0
    /\ \A k \in Range(snapshot) : Get(k)[2] /\ Get(k)[1].Symbol = k
    /\ GetLastUpdate > atStart.lastUpdate

\* A finished cycle, not the first to write, whose fetches all failed.
C2_Witness ==
  /\ cPc = "finished"
  /\ \A p \in DOMAIN unit : unit[p].ret.err # NoErr
  /\ \A k \in Range(snapshot) : Get(k)[2] /\ Get(k)[1].Candles = <<>>
  /\ atStart.lastUpdate # ZeroTime
  /\ GetLastUpdate > atStart.lastUpdate

\* C3: batches run in input order behind a barrier.  A goroutine of a batch
\* exists only when every position of every earlier batch has completed and
\* had its result written to the cache, positions are launched in snapshot
\* order, and results are written batch by batch.
C3_BatchBarrier ==
  /\ \A p \in DOMAIN unit :
       unit[p].pc # "none" =>
         /\ \A q \in 1..(p - 1) : unit[q].pc # "none"
         /\ \A q \in DOMAIN unit :
              BatchOf(q) < BatchOf(p) =>
                unit[q].pc = "done" /\ q \in Range(written)
  /\ \A j1, j2 \in 1..Len(written) :
       j1 < j2 => BatchOf(written[j1]) <= BatchOf(written[j2])

\* A goroutine of the second batch is running.
C3_Witness ==
  \E p \in DOMAIN unit :
    /\ BatchOf(p) = 1
    /\ unit[p].pc = "call"
    /\ \A q \in DOMAIN unit : BatchOf(q) = 0 => q \in Range(written)

\* C4: the collect loop receives only when every goroutine of the batch has
\* been launched, and never more goroutines than the batch size are
\* outstanding.
C4_BoundedFanOut ==
  /\ cPc = "collect" =>
       \A p \in BatchPositions(batchIdx, Len(snapshot), BatchSize) :
         unit[p].pc # "none"
  /\ Cardinality(Outstanding) <= BatchSize

\* A full batch is outstanding while the collect loop waits.
C4_Witness ==
  /\ cPc = "collect"
  /\ Cardinality(Outstanding) = BatchSize
  /\ results = <<>>

(***************************************************************************)
(* Claims about the batch loop, checked under SpecPart.                    *)
(***************************************************************************)
RECURSIVE Concat(_)
Concat(ss) == IF ss = <<>> THEN <<>> ELSE Head(ss) \o Concat(Tail(ss))

\* ceil(n / b): the least k with k * b >= n.
CeilDiv(n, b) == CHOOSE k \in 0..n : k * b >= n /\ \A k2 \in 0..(k - 1) : k2 * b < n

PartDone == pIdx >= Len(pSyms)

\* C5: batch partitioning.  When the loop over N >= 1 symbols with batch
\* size B >= 1 has ended it has formed exactly ceil(N/B) batches, which is
\* also the totalBatches it computed; every position of the list lies in
\* exactly one batch; every batch but the last has exactly B entries and the
\* last has between 1 and B; and the batches in order concatenate to the
\* list.
C5_BatchPartition ==
  PartDone =>
    LET n == Len(pSyms)
        m == Len(pBatches)
    IN  /\ m = CeilDiv(n, pB)
        /\ TotalBatches(n, pB) = m
        /\ \A pos \in 1..n :
             Cardinality({j \in 1..m : pRanges[j][1] <= pos /\ pos <= pRanges[j][2]}) = 1
        /\ \A j \in 1..m : Len(pBatches[j]) = pRanges[j][2] - pRanges[j][1] + 1
        /\ \A j \in 1..(m - 1) : Len(pBatches[j]) = pB
        /\ Len(pBatches[m]) >= 1 /\ Len(pBatches[m]) <= pB
        /\ Concat(pBatches) = pSyms

\* The loop has ended with several batches, the last one short.
C5_Witness ==
  /\ PartDone
  /\ Len(pBatches) >= 2
  /\ Len(pBatches[Len(pBatches)]) < pB
  /\ Concat(pBatches) = pSyms

(***************************************************************************)
(* Claims about FetchCandlesWithRetry, checked under SpecRetry.            *)
(***************************************************************************)
Calls == SelectSeq(rLog, LAMBDA e : e.ev = "call")

Sleeps == SelectSeq(rLog, LAMBDA e : e.ev = "sleep")

\* The number of failed calls at the head of the log.
FailedCalls == Len(SelectSeq(Calls, LAMBDA e : e.out.err # NoErr))

Returned == rFrame.pc = "ret"

\* C6: a call that returns without error made k failed FetchCandles calls
\* and then one successful call, k < maxRetries, slept k times for 1, 2,
\* ..., 2^(k-1) seconds, one sleep after each failed call, and returns the
\* bars of the successful call.
C6_RetrySuccess ==
  (Returned /\ rFrame.ret.err = NoErr) =>
    LET k == FailedCalls
    IN  /\ k < rMax
        /\ Len(Calls) = k + 1
        /\ Len(rLog) = 2 * k + 1
        /\ \A j \in 1..k :
             /\ rLog[2 * j - 1].ev = "call" /\ rLog[2 * j - 1].out.err # NoErr
             /\ rLog[2 * j] = [ev |-> "sleep", dur |-> 2 ^ (j - 1)]
        /\ rLog[2 * k + 1].ev = "call"
        /\ rLog[2 * k + 1].out.err = NoErr
        /\ rFrame.ret.candles = rLog[2 * k + 1].out.candles

\* Three failures, then success at the fourth attempt.
C6_Witness ==
  /\ Returned
  /\ rFrame.ret.err = NoErr
  /\ rFrame.ret.candles = <<2, 3>>
  /\ FailedCalls = 3
  /\ [j \in 1..Len(Sleeps) |-> Sleeps[j].dur] = <<1, 2, 4>>

\* C7: a call that returns an error made exactly maxRetries FetchCandles
\* calls, all failed, and maxRetries-1 sleeps, the last call followed by
\* none; it returns no bars and an error that wraps the error of the last
\* call; and the collect loop then stores the empty sequence and counts no
\* success.
C7_RetryExhausted ==
  (Returned /\ rFrame.ret.err # NoErr) =>
    /\ Len(Calls) = rMax
    /\ FailedCalls = rMax
    /\ Len(Sleeps) = rMax - 1
    /\ rLog[Len(rLog)].ev = "call"
    /\ rFrame.ret.candles = Nil
    /\ rFrame.ret.err = Wrap(rMax, rLog[Len(rLog)].out.err)
    /\ rStore # NoStore => rStore = [candles |-> <<>>, counted |-> 0]

\* Every attempt failed, the last with another error than the first, and
\* the collect loop has handled the result.
C7_Witness ==
  /\ Returned
  /\ rMax = 3
  /\ Len(Sleeps) = 2
  /\ rFrame.ret.err = Wrap(3, StatusErr)
  /\ rLog[1].out.err = RequestErr
  /\ rStore = [candles |-> <<>>, counted |-> 0]

(***************************************************************************)
(* Claims about the Cache under concurrent callers, checked under          *)
(* SpecCache.                                                              *)
(***************************************************************************)
\* C8: no torn reads.  What a Get call returns is either the zero entry
\* with found = false, and then no Set call had stored the key in full when
\* the Get was called, or an entry whose Symbol (the key asked for), Candles
\* slice and LastUpdate are those one single Set call stored: never fields
\* of two Set calls, never a slot half filled.
C8_NoTornRead ==
  \A t \in Readers :
    th[t].pc = "got" =>
      IF th[t].found
      THEN /\ th[t].ent \in commits
           /\ th[t].ent.Symbol = th[t].key
      ELSE /\ th[t].ent = ZeroSlot
           /\ th[t].key \notin th[t].known

\* A Get has returned the entry of the first Set on a key while the second
\* Set on that key is in the middle of its store.
C8_Witness ==
  \E t \in Readers, w \in Writers :
    /\ th[t].pc = "got"
    /\ th[t].found
    /\ th[t].ent \in commits
    /\ th[w].pc = "storeTime"
    /\ th[w].key = th[t].key
    /\ data[th[t].key] \notin commits

\* C9: GetAll returns a point-in-time copy.  The mapping GetAll returns is
\* c.data as it stood, with every store complete, at one instant between
\* the call and the return.
C9_PointInTimeCopy ==
  \A t \in Readers :
    (th[t].pc = "gotAll" /\ th[t].muts = 0) => th[t].res \in th[t].seen

\* A GetAll that ran across a Set has returned a mapping of two entries.
C9_Witness ==
  \E t \in Readers :
    /\ th[t].pc = "gotAll"
    /\ th[t].muts = 0
    /\ Cardinality(th[t].seen) >= 2
    /\ Cardinality(DOMAIN th[t].res) = 2
    /\ th[t].res = data

\* What Get and GetAll show of the cache: each entry with the bars its
\* slice points at.
Visible ==
  [k \in DOMAIN data |->
     [Symbol |-> data[k].Symbol, Candles |-> Bars(data[k].Candles),
      LastUpdate |-> data[k].LastUpdate]]

\* A step in which a caller writes to the mapping a GetAll returned to it.
CallerWrites == \E t \in Readers : th'[t].muts = th[t].muts + 1

\* C10: defensive copy.  No write of a caller to the mapping GetAll
\* returned (an entry added, replaced or removed, a bar of a returned entry
\* overwritten) changes what Get and GetAll show afterwards.
C10_DefensiveCopy == [][CallerWrites => Visible' = Visible]_vars

\* The part of C10 the copy loop of GetAll does give: adding, replacing and
\* removing entries of the returned mapping leaves c.data as it is.
DefensiveCopyOfMap ==
  [][(CallerWrites /\ UNCHANGED heap) => Visible' = Visible]_vars

(***************************************************************************)
(* Claims about the cycle and the identifier set, checked under Spec.      *)
(***************************************************************************)
\* The keys whose entry is not the one the cache held when the cycle read
\* the symbols.
Rewritten ==
  {k \in DOMAIN data : k \notin DOMAIN atStart.data \/ data[k] # atStart.data[k]}

\* C11: one snapshot per cycle.  From its one GetSymbols call to its return
\* a cycle works on the symbols the cache held at that call: its goroutines
\* are those of the positions of that list, every result carries the symbol
\* of that list at its position, only keys of that list get a new entry,
\* and at the end every key of that list has an entry written after the
\* call, whatever SetSymbols calls the symbol fetcher makes meanwhile.
C11_OneSnapshot ==
  cPc # "idle" =>
    /\ snapshot = atStart.symbols
    /\ DOMAIN unit = 1..Len(atStart.symbols)
    /\ \A j \in 1..Len(results) :
         results[j].symbol = atStart.symbols[results[j].pos]
    /\ Rewritten \subseteq Range(atStart.symbols)
    /\ cPc = "finished" =>
         \A k \in Range(atStart.symbols) :
           k \in DOMAIN data /\ data[k].LastUpdate > atStart.now

\* A cycle over the longest list has ended, the cache's list was replaced
\* by a shorter one while it ran, and the keys no longer listed were
\* written all the same.
C11_Witness ==
  /\ cPc = "finished"
  /\ snapshot = LongList
  /\ symbols = <<"a">>
  /\ symbolUpdate > atStart.now
  /\ Rewritten = Range(LongList)

\* C12: a cycle that reads the empty symbol list returns at once: it has
\* launched no goroutine, holds no result, has written nothing, and the
\* entries and the data timestamp of the cache are what they were at the
\* read.
C12_EmptySnapshotNoEffect ==
  cPc = "skipped" =>
    /\ atStart.symbols = <<>>
    /\ snapshot = <<>>
    /\ unit = <<>>
    /\ results = <<>>
    /\ written = <<>>
    /\ data = atStart.data
    /\ lastUpdate = atStart.lastUpdate

\* A cycle took the empty-list branch after a symbol refresh that wrote
\* nothing, while the next refresh is under way.
C12_Witness ==
  /\ cPc = "skipped"
  /\ atStart.now > 1
  /\ sPc = "calling"
  /\ GetLastUpdate = ZeroTime

\* A step that gives key k an entry it did not have before the step.
Writes(k) == k \in DOMAIN data' /\ (k \notin DOMAIN data \/ data'[k] # data[k])

\* C18: entries are never deleted.  No step of the symbol fetcher or of a
\* cycle takes a key out of the cache: a key Get finds is found after every
\* step.  And the entry of a key changes only in a step of the collect loop
\* of a cycle whose snapshot holds the key, so a key that has left the
\* symbol list keeps the entry of the last cycle that had it.
C18_NeverDeleted ==
  [][/\ \A k \in Keys : Get(k)[2] => (k \in DOMAIN data')
     /\ \A k \in Keys : Writes(k) => (cPc = "collect" /\ k \in Range(snapshot))]_vars

\* A cycle has ended whose snapshot lacked a key that an earlier cycle
\* wrote and that the symbol list has dropped: its entry, with its bars, is
\* the one the cache held when the cycle started.
C18_Witness ==
  /\ cPc = "finished"
  /\ \E k \in DOMAIN data :
       /\ k \notin Range(GetSymbols)
       /\ k \notin Range(snapshot)
       /\ Get(k)[2]
       /\ Get(k)[1].Candles # <<>>
       /\ Get(k)[1] = atStart.data[k]

\* C19: GetLastUpdate returns the zero time exactly when no Set call has
\* been made and GetSymbolUpdate returns the zero time exactly when no
\* SetSymbols call has been made; a cache nothing has been written to has
\* no entries, the empty symbol list and both timestamps zero.
C19_ZeroTimeIffUnwritten ==
  /\ (GetLastUpdate = ZeroTime) <=> ("Set" \notin performed)
  /\ (GetSymbolUpdate = ZeroTime) <=> ("SetSymbols" \notin performed)
  /\ performed = {} =>
       /\ DOMAIN GetAll = {}
       /\ GetSymbols = <<>>
       /\ GetLastUpdate = ZeroTime
       /\ GetSymbolUpdate = ZeroTime

\* The symbol list has been written and stamped, a cycle is collecting and
\* has not made its first Set call: the data timestamp is still zero.
C19_Witness ==
  /\ performed = {"SetSymbols"}
  /\ GetSymbolUpdate # ZeroTime
  /\ GetLastUpdate = ZeroTime
  /\ cPc = "collect"
  /\ results # <<>>

\* C21: the two loops run independently.  Whether a step of the symbol
\* fetcher can be taken depends on the symbol fetcher alone and whether a
\* step of the cycle can be taken on the cycle alone (and on an upstream
\* call returning): a refresh can start and return at any point of a cycle,
\* its backoff sleeps and inter-batch delays included, and a cycle can
\* start and go on while a refresh is waiting for FetchPerpetualSymbols.
C21_LoopsIndependent ==
  /\ sPc = "idle" => ENABLED SymFetchStart
  /\ (sPc = "calling" /\ now < MaxTime) =>
       ENABLED (\E r \in SymbolResults : SymFetchReturn(r))
  /\ cPc = "idle" => ENABLED (CycleBegin \/ CycleSkip)
  /\ cPc = "launch" => ENABLED Launch
  /\ \A p \in DOMAIN unit :
       /\ (unit[p].pc = "call" /\ now < MaxTime) =>
            ENABLED (\E out \in CycleOutcomes : UnitCall(p, out))
       /\ unit[p].pc = "sleep" => ENABLED UnitWake(p)
       /\ unit[p].pc = "ret" => ENABLED UnitSend(p)
  /\ (cPc = "collect" /\ results # <<>>) => ENABLED Collect(0)
  /\ cPc = "delay" => ENABLED DelayEnd
  /\ cPc \in {"finished", "skipped"} => ENABLED CycleReturn

\* A cycle is in its inter-batch delay; one refresh has returned since the
\* cycle started and the next is waiting for its upstream call.
C21_Witness ==
  /\ cPc = "delay"
  /\ written # <<>>
  /\ GetSymbolUpdate > atStart.now
  /\ sPc = "calling"

\* The entry of key k was empty when the cycle started: the fetch written
\* last for k before this cycle had failed terminally (a fetch that
\* succeeds brings bars).
FailedBefore(k) ==
  k \in DOMAIN atStart.data /\ atStart.data[k].Candles = <<>>

\* The goroutine at position p went through FetchCandlesWithRetry: it had
\* a successful call, or MaxRetries failed ones.
Fetched(p) ==
  /\ unit[p].pc \in {"ret", "done"}
  /\ unit[p].ret.err = NoErr \/ unit[p].attempt = MaxRetries

\* C23: a symbol whose last fetch failed terminally is fetched again by the
\* next cycle whose snapshot holds it, like every other symbol: by the time
\* its batch is collected a goroutine has been started for it, when its
\* result is written it has gone through FetchCandlesWithRetry anew, and at
\* the end of the cycle its entry holds the bars of that fetch if it
\* succeeded.
C23_FailedIsRetried ==
  \A p \in DOMAIN unit :
    FailedBefore(snapshot[p]) =>
      /\ (cPc = "collect" /\ p \in BatchPositions(batchIdx, Len(snapshot), BatchSize)) =>
           unit[p].pc # "none"
      /\ p \in Range(written) => Fetched(p)
      /\ cPc = "finished" =>
           /\ p \in Range(written)
           /\ unit[LastWritten(snapshot[p])].ret.err = NoErr =>
                /\ Get(snapshot[p])[1].Candles # <<>>
                /\ Get(snapshot[p])[1].Candles = unit[LastWritten(snapshot[p])].ret.candles

\* A cycle has ended in which the one symbol of the snapshot, whose entry
\* was empty after the cycle before, was fetched with success: the entry
\* holds the bars.
C23_Witness ==
  /\ cPc = "finished"
  /\ snapshot = <<"a">>
  /\ FailedBefore("a")
  /\ unit[1].ret.err = NoErr
  /\ Get("a")[1].Candles = unit[1].ret.candles
  /\ Get("a")[1].Candles # <<>>

\* C28 as claimed: no result of a batch is written to the cache while
\* another fetch of the same batch is outstanding.
C28_WritesAfterAllFetches ==
  \A p, q \in DOMAIN unit :
    (BatchOf(p) = BatchOf(q) /\ p \in Range(written)) =>
      unit[q].pc \in {"ret", "done"}

\* C28: a result is written only when its own goroutine has fetched and
\* sent it, and the collect loop leaves a batch (for the delay, the next
\* batch or the return) only when every goroutine of the batch has sent
\* its result and the result is written.
C28_WritesAsReceived ==
  /\ \A p \in Range(written) : Fetched(p) /\ unit[p].pc = "done"
  /\ \A p \in DOMAIN unit :
       (\/ cPc = "finished"
        \/ cPc = "delay" /\ BatchOf(p) <= BatchOf(batchIdx + 1)
        \/ cPc \in {"launch", "collect"} /\ BatchOf(p) < BatchOf(batchIdx + 1))
       => (unit[p].pc = "done" /\ p \in Range(written))

\* The first result of a batch is written while the other fetch of the
\* batch is still calling upstream.
C28_Witness ==
  /\ cPc = "collect"
  /\ written = <<2>>
  /\ unit[1].pc = "call"
  /\ Get(snapshot[2])[2]

\* C29: the inter-batch delay is taken once after each batch but the last
\* and never after the last: the delays begun are one fewer than the
\* batches begun while a batch is launched or collected, as many while the
\* cycle sleeps, and one fewer than the batches of the snapshot when the
\* cycle is through; the cycle sleeps only with every result of the batches
\* so far written and no goroutine of a later batch started.
C29_DelayBetweenBatches ==
  /\ cPc \in {"launch", "collect"} => delays = CurrentBatch(batchIdx, BatchSize) - 1
  /\ cPc = "delay" =>
       /\ delays = CurrentBatch(batchIdx, BatchSize)
       /\ delays < TotalBatches(Len(snapshot), BatchSize)
       /\ \A p \in DOMAIN unit :
            IF BatchOf(p) < delays
            THEN p \in Range(written)
            ELSE unit[p].pc = "none"
  /\ cPc = "finished" => delays = TotalBatches(Len(snapshot), BatchSize) - 1

\* A cycle of two batches is through, with one delay.
C29_Witness ==
  /\ cPc = "finished"
  /\ TotalBatches(Len(snapshot), BatchSize) = 2
  /\ delays = 1
  /\ Range(written) = 1..Len(snapshot)

\* The results goroutine p has delivered: those in the channel and those
\* the collect loop has written.
Delivered(p) ==
  Cardinality({j \in 1..Len(results) : results[j].pos = p})
    + Cardinality({j \in 1..Len(written) : written[j] = p})

\* C30: no goroutine is leaked.  A goroutine with its result in hand finds
\* room in the channel; a goroutine that has sent has delivered one result
\* and every other none; the goroutines running or about to send are of
\* the batch being launched or collected, and when the collect loop is
\* through a batch, and when the cycle is through, none is running or about
\* to send and the channel is empty.
C30_NoLeakedUnits ==
  /\ \A p \in DOMAIN unit :
       /\ unit[p].pc = "ret" => (Len(results) < ResultsCap /\ ENABLED UnitSend(p))
       /\ Delivered(p) = IF unit[p].pc = "done" THEN 1 ELSE 0
  /\ cPc \in {"launch", "collect"} =>
       Outstanding \subseteq BatchPositions(batchIdx, Len(snapshot), BatchSize)
  /\ cPc \in {"delay", "finished"} => (Outstanding = {} /\ results = <<>>)
  /\ (cPc = "launch" /\ launchIdx = batchIdx) => (Outstanding = {} /\ results = <<>>)

\* Both goroutines of a batch have sent before the collect loop received:
\* the channel is full.
C30_Witness ==
  /\ cPc = "collect"
  /\ i = 0
  /\ Len(results) = 2
  /\ ResultsCap = 2
  /\ unit[1].pc = "done" /\ unit[2].pc = "done"
  /\ results[1].pos = 2

\* C34: once the symbol list of the cache is non-empty it stays non-empty:
\* no step of the symbol fetcher (a refresh that succeeds, fails or finds
\* an empty universe) and no step of a cycle leaves it empty.
C34_NeverEmptyAgain == [][symbols # <<>> => symbols' # <<>>]_vars

\* No cycle has run, so the clock counts the refreshes that returned:
\* three have, the first stored a list, and the two after it stored
\* nothing (they found an empty universe); the list is still there.
C34_Witness ==
  /\ "Set" \notin performed
  /\ cPc = "idle"
  /\ sPc = "idle"
  /\ now = 4
  /\ symbolUpdate = 2
  /\ symbols # <<>>

\* C35: a cycle calls Set once for each position of its snapshot and
\* changes nothing else in the cache.  A step of the cycle leaves the
\* symbol list and its timestamp alone, leaves the entry of every key
\* outside the snapshot alone and adds no such key, and changes the entries
\* or the data timestamp only by writing the result of one more position;
\* when the cycle is through, each position was written once.
C35_CycleWritesItsSnapshotOnly ==
  /\ [](cPc = "finished" =>
         /\ Len(written) = Len(snapshot)
         /\ Range(written) = 1..Len(snapshot))
  /\ [][cycleVars' # cycleVars =>
         /\ symbols' = symbols
         /\ symbolUpdate' = symbolUpdate
         /\ DOMAIN data' \subseteq DOMAIN data \cup Range(snapshot)
         /\ \A k \in DOMAIN data \ Range(snapshot) :
              k \in DOMAIN data' /\ data'[k] = data[k]
         /\ (data' # data \/ lastUpdate' # lastUpdate) =>
              /\ Len(written') = Len(written) + 1
              /\ \A k \in DOMAIN data :
                   k # snapshot[written'[Len(written')]] => data'[k] = data[k]]_vars

\* A cycle over the list "a" is through; the entry of "b", written by an
\* earlier cycle, is the one the cache held when this cycle started.
C35_Witness ==
  /\ cPc = "finished"
  /\ snapshot = <<"a">>
  /\ written = <<1>>
  /\ "b" \in DOMAIN data
  /\ data["b"] = atStart.data["b"]
  /\ data["a"] # atStart.data["a"]

(***************************************************************************)
(* Claims about the symbol refresh, checked under SpecSym.                 *)
(***************************************************************************)
Refreshes == refreshed.log

\* The fetchSymbols call that returned last.
Last == Refreshes[Len(Refreshes)]

\* FetchPerpetualSymbols returned a non-empty list and no error.
Succeeded(e) == e.res.err = NoErr /\ Len(e.res.symbols) > 0

Failed(e) == e.res.err # NoErr

\* C13: after a refresh whose FetchPerpetualSymbols call returned a
\* non-empty list, GetSymbols returns exactly that list, in its order and
\* with nothing of the list held before, the symbol timestamp is the time of
\* the refresh, later than the timestamp before it, and the fallback copy
\* is that list too.
C13_SuccessReplaces ==
  (Refreshes # <<>> /\ Succeeded(Last)) =>
    /\ GetSymbols = Last.res.symbols
    /\ GetSymbolUpdate = now
    /\ GetSymbolUpdate > Last.before.symbolUpdate
    /\ cachedSymbols = Last.res.symbols

\* The list "b", "a" has replaced the longest list: "c" is gone and "b"
\* comes first.
C13_Witness ==
  /\ Refreshes # <<>>
  /\ Succeeded(Last)
  /\ Last.before.symbols = LongList
  /\ Last.res.symbols = <<"b", "a">>
  /\ GetSymbols = <<"b", "a">>
  /\ cachedSymbols = <<"b", "a">>

\* C14: after a refresh whose FetchPerpetualSymbols call returned an error,
\* the list GetSymbols returns and the fallback copy are what they were
\* before the refresh, whether a fallback copy existed (and was written to
\* the cache) or not (and nothing was written).
C14_FailureKeepsLists ==
  (Refreshes # <<>> /\ Failed(Last)) =>
    /\ GetSymbols = Last.before.symbols
    /\ cachedSymbols = Last.before.cachedSymbols
    /\ Last.before.cachedSymbols = <<>> => SymbolState = Last.before

\* A refresh failed with a fallback copy at hand, wrote it to the cache
\* (the timestamp moved), and the list is the one held before.
C14_Witness ==
  /\ Refreshes # <<>>
  /\ Failed(Last)
  /\ Last.before.cachedSymbols = <<"b", "a">>
  /\ GetSymbolUpdate # Last.before.symbolUpdate
  /\ GetSymbols = <<"b", "a">>

\* C15: after a refresh whose FetchPerpetualSymbols call returned an error,
\* GetSymbolUpdate returns what it returned before the refresh.
C15_FailureKeepsStamp ==
  (Refreshes # <<>> /\ Failed(Last)) =>
    GetSymbolUpdate = Last.before.symbolUpdate

\* C16: after a refresh whose FetchPerpetualSymbols call returned the empty
\* list and no error, the list GetSymbols returns, the symbol timestamp and
\* the fallback copy are what they were before the refresh.
C16_EmptyListNoWrite ==
  (Refreshes # <<>> /\ Last.res.err = NoErr /\ Last.res.symbols = <<>>) =>
    SymbolState = Last.before

\* An empty list came back while the cache held a list.
C16_Witness ==
  /\ Refreshes # <<>>
  /\ Last.res.err = NoErr
  /\ Last.res.symbols = <<>>
  /\ Last.before.symbols = <<"c", "c">>
  /\ SymbolState = Last.before

\* C17: when two refreshes in a row received the same non-empty list, the
\* list GetSymbols returns after the second is the list it returned after
\* the first (as a sequence, and so as a set), and the symbol timestamp
\* after the second is not earlier than after the first.
C17_SameListTwice ==
  (/\ Len(Refreshes) = 2
   /\ Succeeded(Refreshes[1])
   /\ Succeeded(Refreshes[2])
   /\ Refreshes[1].res.symbols = Refreshes[2].res.symbols) =>
    /\ Refreshes[2].before.symbols = Refreshes[1].res.symbols
    /\ GetSymbols = Refreshes[2].before.symbols
    /\ Range(GetSymbols) = Range(Refreshes[2].before.symbols)
    /\ GetSymbolUpdate >= Refreshes[2].before.symbolUpdate

\* The longest list was received twice in a row, after another list.
C17_Witness ==
  /\ Len(Refreshes) = 2
  /\ Refreshes[1].res = [symbols |-> LongList, err |-> NoErr]
  /\ Refreshes[2].res = [symbols |-> LongList, err |-> NoErr]
  /\ Refreshes[1].before.symbols = <<"a">>
  /\ GetSymbols = LongList
  /\ GetSymbolUpdate > Refreshes[2].before.symbolUpdate

\* Before the refreshes remembered the lists were empty, and none of those
\* remembered returned a non-empty list.
NoSuccessYet ==
  /\ Refreshes # <<>> =>
       (Refreshes[1].before.symbols = <<>> /\ Refreshes[1].before.cachedSymbols = <<>>)
  /\ \A j \in 1..Len(Refreshes) : ~Succeeded(Refreshes[j])

\* C33: when fetchSymbols is not running, GetSymbols returns what the
\* fallback copy holds, whether the refreshes so far succeeded, failed or
\* found an empty universe, and both are empty as long as no refresh has
\* returned a non-empty list.
C33_CacheEqualsFallback ==
  sPc = "idle" =>
    /\ GetSymbols = cachedSymbols
    /\ NoSuccessYet => (GetSymbols = <<>> /\ cachedSymbols = <<>>)

\* After a second successful refresh and then a failed one the cache and
\* the fallback copy both hold the second list.
C33_Witness ==
  /\ sPc = "idle"
  /\ Len(Refreshes) = 2
  /\ Succeeded(Refreshes[1])
  /\ Refreshes[1].before.symbols = LongList
  /\ Refreshes[1].res.symbols = <<"b", "a">>
  /\ Failed(Last)
  /\ GetSymbols = <<"b", "a">>
  /\ cachedSymbols = <<"b", "a">>

(***************************************************************************)
(* Claims about the termination of a cycle, checked under SpecLive.        *)
(***************************************************************************)
Running == cPc \in {"launch", "collect", "delay"}

\* The cycle is through its last batch with the result of every position
\* of the snapshot written.
Ended == cPc = "finished" /\ Range(written) = 1..Len(snapshot)

\* An upstream call is outstanding at the clock's last reading: in the
\* model it does not return.
CallHangs == now = MaxTime /\ \E p \in DOMAIN unit : unit[p].pc = "call"

\* C20: as long as upstream calls return, a cycle that has started reaches
\* its end with the result of every position of its snapshot written,
\* whichever of its fetches fail terminally: a goroutine that returns an
\* error holds up neither the others of its batch nor the batches after it.
C20_CycleEnds == Running ~> (Ended \/ CallHangs)

\* A cycle of two batches has ended: the first fetch of the first batch
\* failed terminally and holds no bars, the other fetch of that batch and
\* the fetch of the second batch were written with their bars.
C20_Witness ==
  /\ Ended
  /\ Len(snapshot) > BatchSize
  /\ unit[1].ret.err # NoErr
  /\ \A p \in DOMAIN unit : p # 1 => unit[p].ret.err = NoErr
  /\ \A p \in DOMAIN unit : p # 1 => Get(snapshot[p])[1].Candles # <<>>
  /\ Get(snapshot[1])[1].Candles = <<>>

(***************************************************************************)
(* Claims about the scheduling of the two actors, checked under SpecTick.  *)
(***************************************************************************)
\* The runs of an actor's routine against the messages it was sent.
RunsMatchMessages(m) ==
  /\ m.pending >= 0
  /\ m.runs = (IF m.started THEN 1 ELSE 0) + m.handled
  /\ m.handled + m.pending = m.sent
  /\ ~m.repeat => (m.sent = 0 /\ m.handled = 0)
  /\ m.first => (m.started /\ m.runs = 1)
  /\ m.repeat => (m.started /\ ~m.first)

\* C22: each actor runs its routine once for actor.Started, and that run
\* has returned before any periodic message is sent, let alone handled;
\* after it the routine is run once for each periodic message taken from
\* the mailbox, and no message is lost: the runs started are one more than
\* the periodic messages handled, and those handled and those waiting are
\* those sent.  No routine runs and nothing is written before
\* actor.Started is taken.
C22_RunPerMessage ==
  /\ RunsMatchMessages(sMail)
  /\ RunsMatchMessages(cMail)
  /\ ~sMail.started => (sPc = "idle" /\ "SetSymbols" \notin performed)
  /\ ~cMail.started => (cPc = "idle" /\ "Set" \notin performed)
  /\ sPc # "idle" => sMail.runs >= 1
  /\ cPc # "idle" => cMail.runs >= 1

\* The symbol fetcher is in its third run, for the second periodic
\* message; the candle fetcher is collecting in its second run while the
\* next periodic message waits in its mailbox.
C22_Witness ==
  /\ sMail.runs = 3
  /\ sMail.handled = 2
  /\ sPc = "calling"
  /\ cMail.runs = 2
  /\ cMail.pending = 1
  /\ cPc = "collect"

(***************************************************************************)
(* Claims about the HTTP handlers, checked under SpecServe.                *)
(***************************************************************************)
\* C24: the response to GET /api/candles/<symbol> is 200 with the entry of
\* <symbol> when the cache holds an entry under that symbol, and 404 when
\* nothing was ever written under it.
C24_ServesEveryEntry ==
  (resp.method = "GET" /\ resp.suffix # <<>>) =>
    /\ resp.had => (resp.status = 200 /\ resp.body = resp.held)
    /\ ~resp.had => resp.status = 404

\* The part of C24 the handler gives: a symbol written in capitals is
\* served with its entry, and a request whose capitals name no entry gets
\* 404.
ServesCapitals ==
  (resp.method = "GET" /\ resp.suffix # <<>>) =>
    /\ (resp.had /\ ToUpper(resp.suffix) = resp.suffix) =>
         (resp.status = 200 /\ resp.body = resp.held)
    /\ resp.status = 404 => (~resp.had \/ ToUpper(resp.suffix) # resp.suffix)

(***************************************************************************)
(* Claims about the universe call, checked under SpecUniverse.             *)
(***************************************************************************)
\* The positions of the raw universe whose entry has a non-empty name and
\* is not marked delisted.
Listed(universe) ==
  {j \in 1..Len(universe) :
     /\ universe[j].name \notin {<<>>, <<"">>}
     /\ universe[j].isDelisted # <<TRUE>>}

\* The listed positions up to j.
ListedUpTo(universe, j) == {k \in Listed(universe) : k <= j}

Answered == reply.r.neterr = FALSE /\ reply.r.status = 200 /\ reply.r.readable /\ reply.r.json

\* C25: FetchPerpetualSymbols returns exactly the names of the raw entries
\* that are not marked delisted and have a non-empty name, in the order
\* upstream listed them, and no error; on a network failure, a status
\* other than 200 or a body that does not parse it returns an error and no
\* identifiers.
C25_FilteredUniverse ==
  fetched.done =>
    IF Answered
    THEN /\ fetched.err = NoErr
         /\ Len(fetched.symbols) = Cardinality(Listed(reply.r.universe))
         /\ \A j \in Listed(reply.r.universe) :
              fetched.symbols[Cardinality(ListedUpTo(reply.r.universe, j))]
                = reply.r.universe[j].name[1]
    ELSE fetched.err # NoErr /\ fetched.symbols = <<>>

C25_Witness ==
  /\ fetched.done
  /\ Answered
  /\ Len(reply.r.universe) = 3
  /\ reply.r.universe[1].isDelisted = <<TRUE>> /\ reply.r.universe[1].name = <<"a">>
  /\ reply.r.universe[2].name = <<"b">> /\ reply.r.universe[2].isDelisted = <<>>
  /\ reply.r.universe[3].name = <<"a">> /\ reply.r.universe[3].isDelisted = <<FALSE>>
  /\ fetched.symbols = <<"b", "a">>

(***************************************************************************)
(* A claim about the identifier list, checked under SpecSym.               *)
(***************************************************************************)
\* C26: the identifier list the cache holds never has a key twice,
\* whatever list of names the universe call returns.
C26_UniqueKeys ==
  \A j, k \in 1..Len(symbols) : symbols[j] = symbols[k] => j = k

(***************************************************************************)
(* A claim about the lock of the Cache, checked under SpecLock.            *)
(***************************************************************************)
\* The callers inside a mutating method, and inside a reading method,
\* with the lock taken.
Mutators == {t \in Callers : th[t].pc = "held"}

Inside == {t \in Callers : th[t].pc = "rheld"}

\* A writer holds the lock or has announced itself.
WriterAhead == \E t \in Callers : th[t].pc \in {"pending", "held"}

\* C27: at most one mutating operation (Set, SetSymbols) holds the cache,
\* and while one does no read operation holds it; read operations do not
\* block one another: a caller at RLock can take the lock unless a writer
\* holds it or waits for it, however many readers hold it.
C27_ReadersWriterExclusive ==
  /\ Cardinality(Mutators) <= 1
  /\ Mutators # {} => Inside = {}
  /\ \A t \in Callers :
       (th[t].pc = "rlock" /\ ~WriterAhead) => ENABLED RLockAcquire(t)

C27_Witness ==
  /\ th["h1"] = [pc |-> "rheld", op |-> "Get"]
  /\ th["h2"] = [pc |-> "rheld", op |-> "GetAll"]
  /\ th["collector"] = [pc |-> "rheld", op |-> "GetSymbols"]
  /\ th["symbolFetcher"] = [pc |-> "lock", op |-> "SetSymbols"]

(***************************************************************************)
(* Claims about backoff and the mailbox of the candle fetcher, checked     *)
(* under SpecTick.                                                         *)
(***************************************************************************)
Asleep == {p \in DOMAIN unit : unit[p].pc = "sleep"}

\* C31: backoff is scoped to the goroutine that retries.  While a goroutine
\* sleeps between two attempts, every other goroutine of the batch can take
\* its next step (its call can return, its own sleep can end, it can send
\* its result), the collect loop can take and write a result that was
\* sent, the symbol fetcher can start a refresh for a message it holds and
\* finish one, and no caller of the cache is held at its lock.
C31_BackoffScoped ==
  Asleep # {} =>
    /\ \A q \in DOMAIN unit :
         /\ (unit[q].pc = "call" /\ now < MaxTime) =>
              ENABLED (\E out \in TickOutcomes : UnitCall(q, out))
         /\ unit[q].pc = "sleep" => ENABLED UnitWake(q)
         /\ unit[q].pc = "ret" => ENABLED UnitSend(q)
    /\ (cPc = "collect" /\ results # <<>>) => ENABLED Collect(0)
    /\ (sPc = "idle" /\ HasMessage(sMail)) => ENABLED SymFetchStart
    /\ (sPc = "calling" /\ now < MaxTime) =>
         ENABLED (\E r \in TickSymbolResults : SymFetchReturn(r))
    /\ CanRLock /\ CanLock

\* The first goroutine of a batch sleeps after a failed attempt; the second
\* has fetched and sent its bar and the collect loop has written it.
C31_Witness ==
  /\ Len(unit) >= 2
  /\ unit[1].pc = "sleep"
  /\ unit[2].pc = "done"
  /\ written = <<2>>
  /\ Get(snapshot[2])[2]
  /\ Get(snapshot[2])[1].Candles = <<1>>

\* C32: cycles never overlap.  The candle fetcher takes its next message
\* only when fetchAllCandles has returned: while a cycle is in flight no
\* cycle can begin, whatever waits in the mailbox, and a message that waits
\* can be taken once the actor is idle; the goroutines are those of the one
\* snapshot of the cycle in flight, and never more than a batch of them are
\* fetching.
C32_CyclesNeverOverlap ==
  /\ cPc # "idle" => ~ENABLED (CycleBegin \/ CycleSkip)
  /\ (cPc = "idle" /\ HasMessage(cMail)) => ENABLED (CycleBegin \/ CycleSkip)
  /\ DOMAIN unit = 1..Len(snapshot)
  /\ cPc = "idle" => unit = <<>>
  /\ Cardinality(Outstanding) <= BatchSize

\* A periodic message waits in the mailbox while a cycle collects with a
\* full batch fetching.
C32_Witness ==
  /\ cPc = "collect"
  /\ cMail.pending = 1
  /\ Cardinality(Outstanding) = BatchSize

(***************************************************************************)
(* A claim about the entries of the Cache, checked under SpecCache.        *)
(***************************************************************************)
\* C36: whenever no Set call holds the lock, the entry stored under a key
\* has that key as its Symbol, and the data timestamp is not earlier than
\* the LastUpdate of any entry (the clock never goes back).
C36_KeyedAndStamped ==
  mu.writer = NoWriter =>
    \A k \in DOMAIN data :
      /\ data[k].Symbol = k
      /\ data[k].LastUpdate <= lastUpdate
      /\ data[k].LastUpdate # ZeroTime

\* Two keys are stored and no Set is running: the entry written first is
\* older than the data timestamp, which the second Set read after the time
\* of its own entry.
C36_Witness ==
  /\ mu.writer = NoWriter
  /\ DOMAIN data = {"a", "b"}
  /\ data["a"].LastUpdate < data["b"].LastUpdate
  /\ data["b"].LastUpdate < lastUpdate

=============================================================================
